---------------------------- MODULE Spec2Model ----------------------------
(***************************************************************************)
(* Predicate / statistics core of the delta kernel:                        *)
(*   - kernel/src/expressions.rs      the Expression tree and the          *)
(*                                    data-skipping compiler               *)
(*                                    (extract_metadata_filters)           *)
(*   - kernel/src/scan/data_skipping.rs  scan pruning                      *)
(*                                    (data_skipping_filter, hack_parse)   *)
(*   - kernel/src/ffi/mod.rs          the handle table (ReferenceSet) and  *)
(*                                    the expression construction protocol *)
(*                                                                         *)
(*                                    (visit_expression_and ..), the scan  *)
(*                                    binding (get_scan_files) and the     *)
(*                                    schema visitor (visit_schema)        *)
(*                                                                         *)
(* The specifications of the module:                                       *)
(*   RefSetSpec  any sequence of ReferenceSet::insert / take calls         *)
(*   Spec        the construction protocol driven by an engine visitor     *)
(*   SkipSpec    data_skipping_filter over a predicate and per-file stats  *)
(*   AndSpec     visit_expression_and pulling an engine iterator           *)
(*   ReuseSpec   handles given to a builder a second time                  *)
(*   ScanSpec    get_scan_files binding the predicate of a visitor         *)
(*   ExprSpec    references, walk and Display over expression trees        *)
(*   SchemaSpec  visit_schema calling the engine's schema visitor          *)
(***************************************************************************)
EXTENDS Integers, Sequences, FiniteSets, TLC

VARIABLES
    inflight_expressions, \* KernelExpressionVisitorState.inflight_expressions
    returned,             \* history: per insert, the id returned and the node
    consumed,             \* history: the handles a take has removed
    last,                 \* history: the last call and what it returned
    predicate,            \* data_skipping_filter: the predicate
    json_stats,           \* add.stats: per file, None or the stats payload
    parsed,               \* the parsed statistics batch
    filter,               \* Option<MetadataFilterResultFnOnce>
    raw,                  \* the result of invoking the deferred computation
    skipping_vector,      \* the keep-mask of line 69
    after,                \* the file rows that survive filter_record_batch
    pc,                   \* position inside data_skipping_filter
    and_call,             \* visit_expression_and: the call in progress
    scan_builder,         \* get_scan_files: position, and the scan's predicate
    visit,                \* visit_schema: position, and the engine's lists
    walker                \* walk / references / Display of one expression

vars == << inflight_expressions, returned, consumed, last, predicate, json_stats,
           parsed, filter, raw, skipping_vector, after, pc, and_call,
           scan_builder, visit, walker >>

tableVars == << inflight_expressions, returned, consumed, last >>
skipVars == << predicate, json_stats, parsed, filter, raw, skipping_vector,
               after, pc >>
callVars == << and_call, scan_builder, visit, walker >>

---------------------------------------------------------------------------
(* Option<T>, Result<T, E> *)

None == [some |-> FALSE]
Some(v) == [some |-> TRUE, val |-> v]

\* Option::zip
zip(a, b) == IF a.some /\ b.some THEN Some(<<a.val, b.val>>) ELSE None

\* Option::or
or_else(a, b) == IF a.some THEN a ELSE b

\* Result<T, ArrowError>
Ok(v) == [ok |-> TRUE, val |-> v]
Err(error, what, name) ==
    [ok |-> FALSE, error |-> error, what |-> what, name |-> name]

---------------------------------------------------------------------------
(* expressions.rs: Scalar, BinaryOperator, UnaryOperator, Expression *)

Integer(v) == [type |-> "Integer", v |-> v]
Long(v) == [type |-> "Long", v |-> v]
String(s) == [type |-> "String", s |-> s]

BinaryOperator ==
    {"And", "Or", "Plus", "Minus", "Multiply", "Divide", "LessThan",
     "LessThanOrEqual", "GreaterThan", "GreaterThanOrEqual", "Equal",
     "NotEqual"}

UnaryOperator == {"Not", "IsNull"}

Literal(s) == [kind |-> "Literal", scalar |-> s]
Column(name) == [kind |-> "Column", name |-> name]
BinaryOperation(op, l, r) ==
    [kind |-> "BinaryOperation", op |-> op, left |-> l, right |-> r]
UnaryOperation(op, e) == [kind |-> "UnaryOperation", op |-> op, expr |-> e]

---------------------------------------------------------------------------
(* ffi/mod.rs: ReferenceSet<T> = { map: HashMap<usize, T>, id: usize } *)

\* impl Default for ReferenceSet
ReferenceSet_default == [map |-> <<>>, id |-> 1]

\* HashMap::insert: an existing entry under the key is overwritten
HashMap_insert(m, k, v) == (k :> v) @@ m

\* HashMap::remove
HashMap_remove(m, k) == [j \in DOMAIN m \ {k} |-> m[j]]

\* ReferenceSet::insert: the new set and the id returned
insert_nobump(rs, value) ==
    [set |-> [map |-> HashMap_insert(rs.map, rs.id, value), id |-> rs.id],
     ret |-> rs.id]

insert(rs, value) ==
    [set |-> [map |-> HashMap_insert(rs.map, rs.id, value), id |-> rs.id + 1],
     ret |-> rs.id]

\* ReferenceSet::take: the new set and the Option<T> returned
take_keep(rs, i) ==
    [set |-> rs,
     ret |-> IF i \in DOMAIN rs.map THEN Some(rs.map[i]) ELSE None]

take(rs, i) ==
    [set |-> [rs EXCEPT !.map = HashMap_remove(rs.map, i)],
     ret |-> IF i \in DOMAIN rs.map THEN Some(rs.map[i]) ELSE None]

\* ReferenceSet::contains
contains(rs, i) == i \in DOMAIN rs.map

\* ReferenceSet::len
len(rs) == Cardinality(DOMAIN rs.map)

---------------------------------------------------------------------------
(* Bounds *)

\* inserts per handle table
MaxInserts == 3

\* the handles a caller may pass: the sentinel 0, every id an insert can
\* have returned, and one that was never assigned
Handles == 0 .. (MaxInserts + 1)

\* the names and values an engine passes to the leaf builders
ColumnNames == {"x"}

---------------------------------------------------------------------------
(* The call history kept for the properties *)

\* op: the call; a, b: the handles passed (0 when it takes none); ret: the
\* handle it returned (0 when it returns none); node: the Option<T> it
\* returned (None when it returns none)
Call(op, a, b, ret, node) ==
    [op |-> op, a |-> a, b |-> b, ret |-> ret, node |-> node]

NoCall == Call("none", 0, 0, 0, None)

SkipIdle ==
    /\ predicate = Column("x")
    /\ json_stats = None
    /\ parsed = Ok(<<>>)
    /\ filter = None
    /\ raw = Ok(<<>>)
    /\ skipping_vector = <<>>
    /\ after = <<>>
    /\ pc = "idle"

\* no visit_expression_and, get_scan_files, visit_schema or walk in progress
CallIdle ==
    /\ and_call = [pc |-> "idle"]
    /\ scan_builder = [pc |-> "idle"]
    /\ visit = [pc |-> "idle"]
    /\ walker = [pc |-> "idle"]

TableIdle ==
    /\ inflight_expressions = ReferenceSet_default
    /\ returned = <<>>
    /\ consumed = {}
    /\ last = NoCall

\* the entries of `pre` that are gone from `post`
Gone(pre, post) == DOMAIN pre.map \ DOMAIN post.map

\* the history of inserts after a call that took the table from `pre` to
\* r.set and returned r.ret
Inserted(pre, r) ==
    IF r.set.id # pre.id
    THEN <<[id |-> r.ret, node |-> r.set.map[r.ret]]>>
    ELSE <<>>

---------------------------------------------------------------------------
(* RefSetSpec: a ReferenceSet<Expression> under any sequence of calls *)

RefSetValues == {Column("x"), Literal(Long(10))}

RefSetInit == TableIdle /\ SkipIdle /\ CallIdle

RefSetInsert(value) ==
    LET r == insert(inflight_expressions, value)
    IN  /\ inflight_expressions.id <= MaxInserts
        /\ inflight_expressions' = r.set
        /\ returned' = Append(returned, [id |-> r.ret, node |-> value])
        /\ last' = Call("insert", 0, 0, r.ret, Some(value))
        /\ UNCHANGED << consumed, skipVars, callVars >>

RefSetTake(i) ==
    LET r == take(inflight_expressions, i)
    IN  /\ inflight_expressions' = r.set
        /\ consumed' = consumed \cup Gone(inflight_expressions, r.set)
        /\ last' = Call("take", i, 0, 0, r.ret)
        /\ UNCHANGED << returned, skipVars, callVars >>

RefSetNext ==
    \/ \E value \in RefSetValues : RefSetInsert(value)
    \/ \E i \in Handles : RefSetTake(i)

RefSetSpec == RefSetInit /\ [][RefSetNext]_vars

(* C8: every insert returns an id >= 1 that no earlier insert on the table
   returned, also when the earlier id has been taken since; the node is
   stored under it, and a handle only ever resolves to the node that was
   inserted under it (a taken handle resolves to nothing). *)
C8_FreshIds ==
    /\ \A k \in 1 .. Len(returned) : returned[k].id >= 1
    /\ \A j, k \in 1 .. Len(returned) :
          j # k => returned[j].id # returned[k].id
    /\ \A i \in DOMAIN inflight_expressions.map :
          \E k \in 1 .. Len(returned) :
              /\ returned[k].id = i
              /\ returned[k].node = inflight_expressions.map[i]
    /\ last.op = "insert" =>
          /\ returned[Len(returned)].id = last.ret
          /\ contains(inflight_expressions, last.ret)
          /\ Some(inflight_expressions.map[last.ret]) = last.node
    /\ \A h \in consumed : ~contains(inflight_expressions, h)

\* an insert that follows the take of an earlier handle
C8_Witness ==
    /\ last.op = "insert"
    /\ \E h \in consumed : h < last.ret
    /\ Len(returned) >= 2

(* C9: take(h) of a handle in the table returns the node inserted under h
   and removes exactly that entry (contains(h) false, len one less, the
   other entries and the next id unchanged); take(h) of a handle that is
   0, never assigned or already taken returns None and leaves the table
   unchanged. *)
C9_Take ==
    [][last'.op = "take" =>
        LET i == last'.a
        IN  IF contains(inflight_expressions, i)
            THEN /\ last'.node = Some(inflight_expressions.map[i])
                 /\ \E k \in 1 .. Len(returned) :
                        /\ returned[k].id = i
                        /\ last'.node = Some(returned[k].node)
                 /\ ~contains(inflight_expressions', i)
                 /\ len(inflight_expressions')
                        = len(inflight_expressions) - 1
                 /\ \A j \in DOMAIN inflight_expressions.map \ {i} :
                        /\ contains(inflight_expressions', j)
                        /\ inflight_expressions'.map[j]
                              = inflight_expressions.map[j]
                 /\ inflight_expressions'.id = inflight_expressions.id
            ELSE /\ i \in {0} \cup consumed
                        \cup (Handles \ {returned[k].id :
                                             k \in 1 .. Len(returned)})
                 /\ last'.node = None
                 /\ inflight_expressions' = inflight_expressions
    ]_vars

\* the second take of a handle (the first one removed it, this one
\* returned None), with other entries still in the table
C9_Witness ==
    /\ last.op = "take"
    /\ last.a \in consumed
    /\ last.node = None
    /\ len(inflight_expressions) >= 1

---------------------------------------------------------------------------
(* Spec: the expression construction protocol of ffi/mod.rs. The engine's
   predicate visitor calls the builders in any order, with any handles. *)

\* wrap_expression
wrap_expression(state, expr) == insert(state, expr)

\* unwrap_kernel_expression
unwrap_kernel_expression(state, exprid) == take(state, exprid)

\* visit_expression_binary: the new table and the handle returned
visit_expression_binary_swapped(state, op, a, b) ==
    LET left == unwrap_kernel_expression(state, a)
        right == unwrap_kernel_expression(left.set, b)
        both == zip(left.ret, right.ret)
    IN  IF both.some
        THEN wrap_expression(right.set,
                 BinaryOperation(op, both.val[2], both.val[1]))
        ELSE [set |-> right.set, ret |-> 0]

\* a builder that puts its operands back when it fails
visit_expression_binary_preserving(state, op, a, b) ==
    LET left == unwrap_kernel_expression(state, a)
        right == unwrap_kernel_expression(left.set, b)
        both == zip(left.ret, right.ret)
    IN  IF both.some
        THEN wrap_expression(right.set,
                 BinaryOperation(op, both.val[1], both.val[2]))
        ELSE [set |-> state, ret |-> 0]

visit_expression_binary(state, op, a, b) ==
    LET left == unwrap_kernel_expression(state, a)
        right == unwrap_kernel_expression(left.set, b)
        both == zip(left.ret, right.ret)
    IN  IF both.some
        THEN wrap_expression(right.set,
                 BinaryOperation(op, both.val[1], both.val[2]))
        ELSE [set |-> right.set, ret |-> 0]

\* what the engine passes to the leaf builders
StringValues == {"foo"}
LongValues == {10}

visit_expression_column(name) ==
    LET r == wrap_expression(inflight_expressions, Column(name))
    IN  /\ r.set.id <= MaxInserts + 1
        /\ inflight_expressions' = r.set
        /\ returned' = returned \o Inserted(inflight_expressions, r)
        /\ last' = Call("column", 0, 0, r.ret, None)
        /\ UNCHANGED << consumed, skipVars, callVars >>

visit_expression_literal_string(value) ==
    LET r == wrap_expression(inflight_expressions, Literal(String(value)))
    IN  /\ r.set.id <= MaxInserts + 1
        /\ inflight_expressions' = r.set
        /\ returned' = returned \o Inserted(inflight_expressions, r)
        /\ last' = Call("literal_string", 0, 0, r.ret, None)
        /\ UNCHANGED << consumed, skipVars, callVars >>

visit_expression_literal_long(value) ==
    LET r == wrap_expression(inflight_expressions, Literal(Long(value)))
    IN  /\ r.set.id <= MaxInserts + 1
        /\ inflight_expressions' = r.set
        /\ returned' = returned \o Inserted(inflight_expressions, r)
        /\ last' = Call("literal_long", 0, 0, r.ret, None)
        /\ UNCHANGED << consumed, skipVars, callVars >>

visit_expression_lt(a, b) ==
    LET r == visit_expression_binary(inflight_expressions, "LessThan", a, b)
    IN  /\ r.set.id <= MaxInserts + 1
        /\ inflight_expressions' = r.set
        /\ returned' = returned \o Inserted(inflight_expressions, r)
        /\ consumed' = consumed \cup Gone(inflight_expressions, r.set)
        /\ last' = Call("lt", a, b, r.ret, None)
        /\ UNCHANGED << skipVars, callVars >>

Init == TableIdle /\ SkipIdle /\ CallIdle

Next ==
    \/ \E name \in ColumnNames : visit_expression_column(name)
    \/ \E value \in StringValues : visit_expression_literal_string(value)
    \/ \E value \in LongValues : visit_expression_literal_long(value)
    \/ \E a, b \in Handles : visit_expression_lt(a, b)

Spec == Init /\ [][Next]_vars

(* C10: visit_expression_lt(a, b): when both handles resolve it returns a
   fresh non-zero handle whose node is BinaryOperation{LessThan, left = the
   node formerly under a, right = the node formerly under b} and a and b
   are gone from the table; when either does not resolve (a = b included)
   it returns 0 and inserts nothing. *)
C10_Binary ==
    [][last'.op = "lt" =>
        LET a == last'.a
            b == last'.b
        IN  IF /\ contains(inflight_expressions, a)
               /\ contains(inflight_expressions, b)
               /\ a # b
            THEN /\ last'.ret # 0
                 /\ ~contains(inflight_expressions, last'.ret)
                 /\ \A k \in 1 .. Len(returned) :
                        returned[k].id # last'.ret
                 /\ contains(inflight_expressions', last'.ret)
                 /\ inflight_expressions'.map[last'.ret]
                        = BinaryOperation("LessThan",
                                          inflight_expressions.map[a],
                                          inflight_expressions.map[b])
                 /\ ~contains(inflight_expressions', a)
                 /\ ~contains(inflight_expressions', b)
            ELSE /\ last'.ret = 0
                 /\ DOMAIN inflight_expressions'.map
                        \subseteq DOMAIN inflight_expressions.map
                 /\ inflight_expressions'.id = inflight_expressions.id
                 /\ returned' = returned
    ]_vars

\* a successful call whose two operands differ, so that their order shows
C10_Witness ==
    /\ last.op = "lt"
    /\ last.ret # 0
    /\ last.a > last.b
    /\ contains(inflight_expressions, last.ret)
    /\ LET node == inflight_expressions.map[last.ret]
       IN  /\ node.left.kind = "Column"
           /\ node.right.kind = "Literal"

(* C21: a visit_expression_lt(a, b) that returns 0 although one of its
   operands resolved (the other did not, or a = b) has removed that operand
   from the table: len is one less, the next id is unchanged, the handle is
   recorded as consumed and is not in the table; and no handle that was
   consumed resolves again: a later builder call that is given one returns
   0, and no consumed handle is in the table for the root to be taken. *)
C21_FailedCallConsumes ==
    [][/\ last'.op = "lt" =>
            LET a == last'.a
                b == last'.b
                left == contains(inflight_expressions, a)
                right == contains(inflight_expressions, b)
            IN  /\ (left /\ (~right \/ a = b)) =>
                      /\ last'.ret = 0
                      /\ len(inflight_expressions')
                             = len(inflight_expressions) - 1
                      /\ inflight_expressions'.id = inflight_expressions.id
                      /\ ~contains(inflight_expressions', a)
                      /\ a \in consumed'
                /\ (right /\ ~left) =>
                      /\ last'.ret = 0
                      /\ len(inflight_expressions')
                             = len(inflight_expressions) - 1
                      /\ inflight_expressions'.id = inflight_expressions.id
                      /\ ~contains(inflight_expressions', b)
                      /\ b \in consumed'
                /\ (a \in consumed \/ b \in consumed) => last'.ret = 0
       /\ consumed \subseteq consumed'
       /\ \A h \in consumed' : ~contains(inflight_expressions', h)
    ]_vars

\* two nodes were built, and the only handle consumed is 1, by a call
\* lt(1, 0) that returned 0: node 1 is lost and node 2 is still there
C21_Witness ==
    /\ last = Call("lt", 1, 0, 0, None)
    /\ consumed = {1}
    /\ Len(returned) = 2
    /\ inflight_expressions.id = 3
    /\ DOMAIN inflight_expressions.map = {2}

---------------------------------------------------------------------------
(* The arrow arrays and kernels that expressions.rs and data_skipping.rs
   call. A cell is null or holds a value; a BooleanArray is a sequence of
   "true" / "false" / "null". *)

Null == [null |-> TRUE]
Val(v) == [null |-> FALSE, v |-> v]

\* a primitive array (PrimitiveArray<Int32Type> / <Int64Type>)
PrimitiveArray(type, vals) == [type |-> type, vals |-> vals, scalar |-> FALSE]

\* PrimitiveArray::new_scalar: a Datum of one value, compared as a scalar
new_scalar(type, v) == [type |-> type, vals |-> <<Val(v)>>, scalar |-> TRUE]

\* StructArray: the child arrays by name and the validity of each row
StructArray(fields, valid) ==
    [type |-> "Struct", fields |-> fields, valid |-> valid]

\* RecordBatch::column_by_name, StructArray::column_by_name
column_by_name(columns, name) ==
    IF name \in DOMAIN columns THEN Some(columns[name]) ELSE None

BoolCell(b) == IF b THEN "true" ELSE "false"

DatumLen(l, r) == IF l.scalar THEN Len(r.vals) ELSE Len(l.vals)
DatumAt(d, i) == IF d.scalar THEN d.vals[1] ELSE d.vals[i]

Compare(op, a, b) ==
    CASE op = "lt" -> a < b
      [] op = "lt_eq" -> a <= b
      [] op = "gt" -> a > b
      [] op = "gt_eq" -> a >= b

\* arrow_ord::cmp::{lt, lt_eq, gt, gt_eq}: the operands must have the same
\* data type; a null operand gives a null result
cmp(op, l, r) ==
    IF l.type # r.type \/ l.type = "Struct"
    THEN Err("InvalidArgumentError", "Invalid comparison operation", op)
    ELSE Ok([i \in 1 .. DatumLen(l, r) |->
                IF DatumAt(l, i).null \/ DatumAt(r, i).null
                THEN "null"
                ELSE BoolCell(Compare(op, DatumAt(l, i).v, DatumAt(r, i).v))])

\* arrow_arith::boolean::and: null when either side is null
boolean_and(l, r) ==
    IF Len(l) # Len(r)
    THEN Err("ComputeError", "Cannot perform bitwise operation", "and")
    ELSE Ok([i \in 1 .. Len(l) |->
                IF l[i] = "null" \/ r[i] = "null" THEN "null"
                ELSE BoolCell(l[i] = "true" /\ r[i] = "true")])

\* arrow_arith::boolean::or: null when either side is null
boolean_or(l, r) ==
    IF Len(l) # Len(r)
    THEN Err("ComputeError", "Cannot perform bitwise operation", "or")
    ELSE Ok([i \in 1 .. Len(l) |->
                IF l[i] = "null" \/ r[i] = "null" THEN "null"
                ELSE BoolCell(l[i] = "true" \/ r[i] = "true")])

\* arrow_arith::boolean::not: null stays null
boolean_not(a) ==
    [i \in 1 .. Len(a) |->
        IF a[i] = "null" THEN "null" ELSE BoolCell(a[i] = "false")]

\* arrow_select::nullif::nullif: left, made null where right is true
nullif(left, right) ==
    [i \in 1 .. Len(left) |-> IF right[i] = "true" THEN "null" ELSE left[i]]

\* arrow_arith::boolean::is_not_null: never null itself
is_not_null(a) == [i \in 1 .. Len(a) |-> BoolCell(a[i] # "null")]

---------------------------------------------------------------------------
(* expressions.rs: extract_metadata_filters. The boxed FnOnce it returns is
   a record of what the closure captured; Invoke runs it. *)

\* cast_column::<StructArray>
cast_column(name, column) ==
    IF ~column.some
    THEN Err("SchemaError", "No such column", name)
    ELSE IF column.val.type # "Struct"
         THEN Err("SchemaError", "is not StructArray", name)
         ELSE Ok(column.val)

\* the get_stats_col closure, called with no nested names
get_stats_col(stats, stat_name, col_name) ==
    LET col == cast_column(stat_name, column_by_name(stats, stat_name))
    IN  IF ~col.ok THEN col
        ELSE LET c == column_by_name(col.val.fields, col_name)
             IN  IF c.some THEN Ok(c.val)
                 ELSE Err("SchemaError", "No such column", col_name)

\* the extract_column closure
extract_column_soft(stats, stat_name, expr) ==
    IF expr.kind = "Column" /\ get_stats_col(stats, stat_name, expr.name).ok
    THEN Some(get_stats_col(stats, stat_name, expr.name))
    ELSE None

extract_column(stats, stat_name, expr) ==
    IF expr.kind = "Column"
    THEN Some(get_stats_col(stats, stat_name, expr.name))
    ELSE None

\* the extract_literal closure
extract_literal_any(expr) ==
    IF expr.kind = "Literal"
    THEN IF expr.scalar.type = "Integer"
         THEN Some(new_scalar("Int32", expr.scalar.v))
         ELSE Some(new_scalar("Int64", 0))
    ELSE None

extract_literal(expr) ==
    IF expr.kind = "Literal" /\ expr.scalar.type = "Long"
    THEN Some(new_scalar("Int64", expr.scalar.v))
    ELSE IF expr.kind = "Literal" /\ expr.scalar.type = "Integer"
         THEN Some(new_scalar("Int32", expr.scalar.v))
         ELSE None

\* the closures
AndFn(left, right) == [f |-> "and", left |-> left, right |-> right]
OrFn(left, right) == [f |-> "or", left |-> left, right |-> right]
CmpFn(op, col, lit) == [f |-> "cmp", op |-> op, col |-> col, lit |-> lit]
EqFn(min_col, max_col, literal) ==
    [f |-> "eq", min_col |-> min_col, max_col |-> max_col,
     literal |-> literal]

\* the AND arm, given what the two legs compiled to
AndArm_both(left, right) ==
    IF left.some /\ right.some
    THEN Some(AndFn(left.val, right.val))
    ELSE None

AndArm(left, right) ==
    IF left.some /\ right.some
    THEN Some(AndFn(left.val, right.val))
    ELSE or_else(left, right)

\* the OR arm, given what the two legs compiled to
OrArm_degrade(left, right) ==
    IF left.some /\ right.some
    THEN Some(OrFn(left.val, right.val))
    ELSE or_else(left, right)

OrArm(left, right) ==
    LET both == zip(left, right)
    IN  IF both.some THEN Some(OrFn(both.val[1], both.val[2])) ELSE None

\* the comparison arm: col <compare> value
ComparisonArm_max_for_lt(op, min_column, max_column, literal) ==
    CASE op = "LessThan" ->
            LET z == zip(max_column, literal)
            IN  IF z.some THEN Some(CmpFn("lt", z.val[1], z.val[2])) ELSE None
      [] op = "LessThanOrEqual" ->
            LET z == zip(min_column, literal)
            IN  IF z.some THEN Some(CmpFn("lt_eq", z.val[1], z.val[2]))
                ELSE None
      [] op = "GreaterThan" ->
            LET z == zip(max_column, literal)
            IN  IF z.some THEN Some(CmpFn("gt", z.val[1], z.val[2])) ELSE None
      [] op = "GreaterThanOrEqual" ->
            LET z == zip(max_column, literal)
            IN  IF z.some THEN Some(CmpFn("gt_eq", z.val[1], z.val[2]))
                ELSE None
      [] op = "Equal" ->
            LET z == zip(zip(min_column, max_column), literal)
            IN  IF z.some
                THEN Some(EqFn(z.val[1][1], z.val[1][2], z.val[2]))
                ELSE None
      [] OTHER -> None

ComparisonArm(op, min_column, max_column, literal) ==
    CASE op = "LessThan" ->
            LET z == zip(min_column, literal)
            IN  IF z.some THEN Some(CmpFn("lt", z.val[1], z.val[2])) ELSE None
      [] op = "LessThanOrEqual" ->
            LET z == zip(min_column, literal)
            IN  IF z.some THEN Some(CmpFn("lt_eq", z.val[1], z.val[2]))
                ELSE None
      [] op = "GreaterThan" ->
            LET z == zip(max_column, literal)
            IN  IF z.some THEN Some(CmpFn("gt", z.val[1], z.val[2])) ELSE None
      [] op = "GreaterThanOrEqual" ->
            LET z == zip(max_column, literal)
            IN  IF z.some THEN Some(CmpFn("gt_eq", z.val[1], z.val[2]))
                ELSE None
      [] op = "Equal" ->
            LET z == zip(zip(min_column, max_column), literal)
            IN  IF z.some
                THEN Some(EqFn(z.val[1][1], z.val[1][2], z.val[2]))
                ELSE None
      [] OTHER -> None

RECURSIVE extract_metadata_filters(_, _)
extract_metadata_filters(self, stats) ==
    IF self.kind = "BinaryOperation" /\ self.op = "And"
    THEN AndArm(extract_metadata_filters(self.left, stats),
                extract_metadata_filters(self.right, stats))
    ELSE IF self.kind = "BinaryOperation" /\ self.op = "Or"
    THEN OrArm(extract_metadata_filters(self.left, stats),
               extract_metadata_filters(self.right, stats))
    ELSE IF self.kind = "BinaryOperation"
    THEN ComparisonArm(self.op,
                       extract_column(stats, "minValues", self.left),
                       extract_column(stats, "maxValues", self.left),
                       extract_literal(self.right))
    ELSE None

\* the body of the `=` closure: min_col?, lt_eq(..)?, max_col?, lt_eq(..)?
InvokeEq_strict(min_col, max_col, literal) ==
    IF ~min_col.ok THEN min_col
    ELSE LET lo == cmp("lt", min_col.val, literal)
         IN  IF ~lo.ok THEN lo
             ELSE IF ~max_col.ok THEN max_col
             ELSE LET hi == cmp("lt", literal, max_col.val)
                  IN  IF ~hi.ok THEN hi ELSE boolean_and(lo.val, hi.val)

InvokeEq(min_col, max_col, literal) ==
    IF ~min_col.ok THEN min_col
    ELSE LET lo == cmp("lt_eq", min_col.val, literal)
         IN  IF ~lo.ok THEN lo
             ELSE IF ~max_col.ok THEN max_col
             ELSE LET hi == cmp("lt_eq", literal, max_col.val)
                  IN  IF ~hi.ok THEN hi ELSE boolean_and(lo.val, hi.val)

\* the body of the `<`, `<=`, `>`, `>=` closure: op(&col?, lit)
InvokeCmp(op, col, lit) == IF ~col.ok THEN col ELSE cmp(op, col.val, lit)

\* the body of the AND / OR closures, given the results of the two legs:
\* and(&left()?, &right()?)
InvokeAnd_lenient(left, right) ==
    IF ~left.ok THEN right
    ELSE IF ~right.ok THEN left
    ELSE boolean_and(left.val, right.val)

InvokeAnd(left, right) ==
    IF ~left.ok THEN left
    ELSE IF ~right.ok THEN right
    ELSE boolean_and(left.val, right.val)

InvokeOr(left, right) ==
    IF ~left.ok THEN left
    ELSE IF ~right.ok THEN right
    ELSE boolean_or(left.val, right.val)

\* calling the boxed closure
RECURSIVE Invoke(_)
Invoke(fn) ==
    CASE fn.f = "and" -> InvokeAnd(Invoke(fn.left), Invoke(fn.right))
      [] fn.f = "or" -> InvokeOr(Invoke(fn.left), Invoke(fn.right))
      [] fn.f = "cmp" -> InvokeCmp(fn.op, fn.col, fn.lit)
      [] fn.f = "eq" -> InvokeEq(fn.min_col, fn.max_col, fn.literal)

---------------------------------------------------------------------------
(* expressions.rs: walk and references *)

\* a walk that forgets the right operand of a binary operation
RECURSIVE walk_from_left_only(_)
walk_from_left_only(stack) ==
    IF stack = <<>> THEN <<>>
    ELSE LET expr == stack[Len(stack)]
             rest == SubSeq(stack, 1, Len(stack) - 1)
         IN  <<expr>> \o
             walk_from_left_only(
                 CASE expr.kind = "BinaryOperation" -> rest \o <<expr.left>>
                   [] expr.kind = "UnaryOperation" -> rest \o <<expr.expr>>
                   [] OTHER -> rest)

\* the iterator of walk: pop the top of the stack, push its children
RECURSIVE walk_from(_)
walk_from(stack) ==
    IF stack = <<>> THEN <<>>
    ELSE LET expr == stack[Len(stack)]
             rest == SubSeq(stack, 1, Len(stack) - 1)
         IN  <<expr>> \o
             walk_from(CASE expr.kind = "BinaryOperation" ->
                                rest \o <<expr.left, expr.right>>
                         [] expr.kind = "UnaryOperation" ->
                                rest \o <<expr.expr>>
                         [] OTHER -> rest)

walk(self) == walk_from(<<self>>)

references(self) ==
    LET visited == walk(self)
    IN  {visited[i].name :
            i \in {j \in 1 .. Len(visited) : visited[j].kind = "Column"}}

---------------------------------------------------------------------------
(* scan/data_skipping.rs: data_skipping_filter and hack_parse *)

\* the table schema of the scans modelled: x is an integer, y a long
table_schema ==
    << [name |-> "x", data_type |-> "Integer"],
       [name |-> "y", data_type |-> "Long"] >>

\* Field::try_from(&StructField)
ArrowType(data_type) == IF data_type = "Integer" THEN "Int32" ELSE "Int64"

\* data_fields: the fields of the table schema the predicate references
data_fields_of(pred) ==
    LET names == references(pred)
        IsReferenced(field) == field.name \in names
        kept == SelectSeq(table_schema, IsReferenced)
    IN  [i \in 1 .. Len(kept) |->
            [name |-> kept[i].name, type |-> ArrowType(kept[i].data_type)]]

FieldNames(data_fields) ==
    {data_fields[i].name : i \in 1 .. Len(data_fields)}

\* a stats payload (add.stats): the JSON object's minValues and maxValues,
\* each absent or an object of column values; or text that is not JSON
Malformed == [malformed |-> TRUE]
Stats(minValues, maxValues) ==
    [malformed |-> FALSE, minValues |-> minValues, maxValues |-> maxValues]

\* one struct column of the row arrow_json decodes: a key that is absent
\* decodes to a null struct, a field that is absent to a null value
DecodeStruct(data_fields, object) ==
    [valid |-> object.some,
     cells |-> [name \in FieldNames(data_fields) |->
                   IF object.some /\ name \in DOMAIN object.val
                   THEN Val(object.val[name])
                   ELSE Null]]

\* new_null_array(&DataType::Struct(data_fields), 1)
NullStruct(data_fields) ==
    [valid |-> FALSE, cells |-> [name \in FieldNames(data_fields) |-> Null]]

\* hack_parse: the one-row batch of a file
hack_parse(data_fields, json_string) ==
    IF ~json_string.some
    THEN Ok([minValues |-> NullStruct(data_fields),
             maxValues |-> NullStruct(data_fields)])
    ELSE IF json_string.val.malformed
         THEN Err("JsonError", "not a JSON object", "stats")
         ELSE Ok([minValues |->
                      DecodeStruct(data_fields, json_string.val.minValues),
                  maxValues |->
                      DecodeStruct(data_fields, json_string.val.maxValues)])

FieldType(data_fields, name) ==
    data_fields[CHOOSE i \in 1 .. Len(data_fields) :
                    data_fields[i].name = name].type

\* concat_batches over the rows: one struct column per statistic
ConcatStruct(data_fields, rows, stat_name) ==
    StructArray(
        [name \in FieldNames(data_fields) |->
            PrimitiveArray(FieldType(data_fields, name),
                           [i \in 1 .. Len(rows) |->
                               rows[i][stat_name].cells[name]])],
        [i \in 1 .. Len(rows) |-> rows[i][stat_name].valid])

\* lines 59-66: parse every row, fail on the first row that fails, else
\* concatenate; the RecordBatch is its columns by name
parse_stats(data_fields, stats) ==
    LET results == [i \in 1 .. Len(stats) |->
                        hack_parse(data_fields, stats[i])]
        bad == {i \in 1 .. Len(stats) : ~results[i].ok}
        rows == [i \in 1 .. Len(stats) |-> results[i].val]
    IN  IF bad # {}
        THEN results[CHOOSE i \in bad : \A j \in bad : i <= j]
        ELSE Ok(("minValues" :> ConcatStruct(data_fields, rows, "minValues"))
                @@ ("maxValues" :>
                        ConcatStruct(data_fields, rows, "maxValues")))

\* line 69: is_not_null(nullif(skipping_vector, not(skipping_vector)))
keep_mask(skipping) == is_not_null(nullif(skipping, boolean_not(skipping)))

\* filter_record_batch: the rows (files) whose mask entry is true
filter_record_batch(n, mask) ==
    LET Keep(i) == mask[i] = "true"
    IN  SelectSeq([i \in 1 .. n |-> i], Keep)

---------------------------------------------------------------------------
(* The predicates and statistics of SkipSpec *)

\* statistics and literals take the values 5, 10, ..., 5 * MaxK
MaxK == 4
Vals == {5 * k : k \in 1 .. MaxK}

\* files per scan
MaxFiles == 2

StatColumns == {"x", "y"}

\* z is not a column of the table, so never one of the statistics
PredicateColumns == {"x", "y", "z"}

ConvertibleOps ==
    {"LessThan", "LessThanOrEqual", "GreaterThan", "GreaterThanOrEqual",
     "Equal"}

NumericLiterals ==
    {Literal(Integer(v)) : v \in Vals} \cup {Literal(Long(v)) : v \in Vals}

\* column OP literal, for the five comparison operators
ComparisonLeaves ==
    {BinaryOperation(op, Column(c), l) :
        op \in ConvertibleOps, c \in PredicateColumns, l \in NumericLiterals}

\* every other leaf shape
OtherLeaves ==
    {BinaryOperation(op, Column("x"), Literal(Integer(10))) :
        op \in {"NotEqual", "Plus", "Minus", "Multiply", "Divide"}}
    \cup {UnaryOperation(op, Column("x")) : op \in UnaryOperator}
    \cup {UnaryOperation("Not",
              BinaryOperation("LessThan", Column("x"), Literal(Integer(10)))),
          Column("x"),
          Literal(Integer(10)),
          BinaryOperation("LessThan", Literal(Integer(10)), Column("x")),
          BinaryOperation("LessThan", Column("x"), Column("y")),
          BinaryOperation("Equal", Column("x"), Column("x")),
          BinaryOperation("LessThan",
              BinaryOperation("Plus", Column("x"), Literal(Integer(5))),
              Literal(Integer(10))),
          BinaryOperation("Equal", Column("x"), Literal(String("foo"))),
          BinaryOperation("LessThan", Column("x"), Literal(String("foo")))}

Leaves == ComparisonLeaves \cup OtherLeaves

\* the leaves the trees are built from: comparisons on x and on y, one on
\* a column without statistics, one with a literal of the other width, and
\* two that are not convertible
TreeLeaves ==
    {BinaryOperation("LessThan", Column("x"), Literal(Integer(10))),
     BinaryOperation("GreaterThanOrEqual", Column("x"), Literal(Integer(15))),
     BinaryOperation("Equal", Column("y"), Literal(Long(10))),
     BinaryOperation("LessThanOrEqual", Column("y"), Literal(Long(5))),
     BinaryOperation("LessThan", Column("z"), Literal(Integer(10))),
     BinaryOperation("LessThan", Column("x"), Literal(Long(10))),
     BinaryOperation("NotEqual", Column("x"), Literal(Integer(5))),
     UnaryOperation("IsNull", Column("y"))}

InnerLeaves ==
    {BinaryOperation("LessThan", Column("x"), Literal(Integer(10))),
     BinaryOperation("Equal", Column("y"), Literal(Long(10))),
     BinaryOperation("LessThan", Column("z"), Literal(Integer(10))),
     BinaryOperation("NotEqual", Column("x"), Literal(Integer(5)))}

Junctions(ls, rs) ==
    {BinaryOperation(op, l, r) : op \in {"And", "Or"}, l \in ls, r \in rs}

InnerTrees == Junctions(InnerLeaves, InnerLeaves)

Trees ==
    Junctions(TreeLeaves, TreeLeaves)
        \cup Junctions(InnerTrees, InnerLeaves)
        \cup Junctions(InnerLeaves, InnerTrees)

\* a payload whose statistics give every column the range lo .. hi
RangeStats(lo, hi) ==
    Stats(Some([c \in StatColumns |-> lo]), Some([c \in StatColumns |-> hi]))

\* min <= max
Ranges == {r \in Vals \X Vals : r[1] <= r[2]}

\* the payloads of the one-file scans: no payload, text that is not JSON,
\* every range, and objects that lack a key or a field
FilePayloads ==
    {None, Some(Malformed)}
        \cup {Some(RangeStats(r[1], r[2])) : r \in Ranges}
        \cup {Some(Stats(Some([c \in StatColumns |-> 5]), None)),
              Some(Stats(None, Some([c \in StatColumns |-> 15]))),
              Some(Stats(Some(<<>>), Some([c \in StatColumns |-> 15]))),
              Some(Stats(None, None))}

\* the payloads of the scans of several files: no payload, and two whose
\* ranges differ between x and y
ScanPayloads ==
    {None,
     Some(Stats(Some(("x" :> 5) @@ ("y" :> 10)),
                Some(("x" :> 15) @@ ("y" :> 10)))),
     Some(Stats(Some(("x" :> 15) @@ ("y" :> 5)),
                Some(("x" :> 20) @@ ("y" :> 20))))}

Scans == UNION {[1 .. n -> ScanPayloads] : n \in 1 .. MaxFiles}

\* statistics batches that extract_metadata_filters can be handed but
\* data_skipping_filter never builds: no minValues, no maxValues, a
\* minValues that is no struct, and x stored as a long
OneRow(type, v) == PrimitiveArray(type, <<Val(v)>>)
OneStruct(type, v) == StructArray("x" :> OneRow(type, v), <<TRUE>>)

DirectBatches ==
    {"maxValues" :> OneStruct("Int32", 15),
     "minValues" :> OneStruct("Int32", 5),
     ("minValues" :> OneRow("Int32", 5))
        @@ ("maxValues" :> OneStruct("Int32", 15)),
     ("minValues" :> OneStruct("Int64", 5))
        @@ ("maxValues" :> OneStruct("Int64", 15))}

---------------------------------------------------------------------------
(* SkipSpec: data_skipping_filter(actions, table_schema, predicate), and
   extract_metadata_filters called on a batch directly (json_stats = None) *)

SkipInit ==
    /\ TableIdle
    /\ CallIdle
    /\ filter = None
    /\ raw = Ok(<<>>)
    /\ skipping_vector = <<>>
    /\ after = <<>>
    /\ \/ /\ predicate \in Leaves
          /\ json_stats \in {Some(<<p>>) : p \in FilePayloads}
          /\ parsed = Ok(<<>>)
          /\ pc = "parse"
       \/ /\ predicate \in Trees
          /\ json_stats \in {Some(scan) : scan \in Scans}
          /\ parsed = Ok(<<>>)
          /\ pc = "parse"
       \/ /\ predicate \in Leaves \cup Trees
          /\ json_stats = None
          /\ parsed \in {Ok(batch) : batch \in DirectBatches}
          /\ pc = "extract"

\* lines 42-66: the stats read schema and the parsed batch
HackParse ==
    /\ pc = "parse"
    /\ parsed' = parse_stats(data_fields_of(predicate), json_stats.val)
    /\ pc' = IF parsed'.ok THEN "extract" ELSE "parse_failed"
    /\ UNCHANGED << tableVars, callVars, predicate, json_stats, filter, raw,
                    skipping_vector, after >>

\* predicate.extract_metadata_filters(&parsed)
ExtractMetadataFilters ==
    /\ pc = "extract"
    /\ filter' = extract_metadata_filters(predicate, parsed.val)
    /\ pc' = IF filter'.some THEN "invoke" ELSE "unconvertible"
    /\ UNCHANGED << tableVars, callVars, predicate, json_stats, parsed, raw,
                    skipping_vector, after >>

\* the deferred computation is invoked; line 68 returns its error
InvokeFilter ==
    /\ pc = "invoke"
    /\ raw' = Invoke(filter.val)
    /\ pc' = IF ~raw'.ok THEN "failed"
             ELSE IF json_stats.some THEN "mask" ELSE "evaluated"
    /\ UNCHANGED << tableVars, callVars, predicate, json_stats, parsed, filter,
                    skipping_vector, after >>

\* line 69
KeepMask ==
    /\ pc = "mask"
    /\ skipping_vector' = keep_mask(raw.val)
    /\ pc' = "filter"
    /\ UNCHANGED << tableVars, callVars, predicate, json_stats, parsed, filter, raw,
                    after >>

\* lines 71-77
FilterRecordBatch ==
    /\ pc = "filter"
    /\ after' = filter_record_batch(Len(json_stats.val), skipping_vector)
    /\ pc' = "done"
    /\ UNCHANGED << tableVars, callVars, predicate, json_stats, parsed, filter, raw,
                    skipping_vector >>

\* no skipping predicate: pruning is skipped and every file is read
NoPruning ==
    /\ pc = "unconvertible"
    /\ json_stats.some
    /\ after' = [i \in 1 .. Len(json_stats.val) |-> i]
    /\ pc' = "done"
    /\ UNCHANGED << tableVars, callVars, predicate, json_stats, parsed, filter, raw,
                    skipping_vector >>

SkipNext ==
    \/ HackParse
    \/ ExtractMetadataFilters
    \/ InvokeFilter
    \/ KeepMask
    \/ FilterRecordBatch
    \/ NoPruning

SkipSpec == SkipInit /\ [][SkipNext]_vars

---------------------------------------------------------------------------
(* What the properties of SkipSpec read *)

\* extract_metadata_filters has returned
Extracted ==
    pc \in {"invoke", "unconvertible", "mask", "filter", "done", "failed",
            "evaluated"}

\* the deferred computation has been invoked
Invoked ==
    filter.some /\ pc \in {"mask", "filter", "done", "failed", "evaluated"}

\* line 69 has computed the keep-mask
Masked == filter.some /\ pc \in {"filter", "done"}

\* the number of rows of the statistics batch
NumRows == IF json_stats.some THEN Len(json_stats.val) ELSE 1

\* the statistic of a column c of the predicate that file i was given: in
\* the payload of add.stats, or in the batch when it is handed over directly
GivenStat(stat_name, c, i) ==
    IF json_stats.some
    THEN LET p == json_stats.val[i]
         IN  IF p.some /\ ~p.val.malformed /\ p.val[stat_name].some
                /\ c \in DOMAIN p.val[stat_name].val
                /\ \E k \in 1 .. Len(table_schema) : table_schema[k].name = c
             THEN Val(p.val[stat_name].val[c])
             ELSE Null
    ELSE LET b == parsed.val
         IN  IF stat_name \in DOMAIN b /\ b[stat_name].type = "Struct"
                /\ c \in DOMAIN b[stat_name].fields
             THEN b[stat_name].fields[c].vals[i]
             ELSE Null

\* the arrow type column c is stored with in the statistic stat_name
StoredType(stat_name, c) ==
    IF json_stats.some
    THEN ArrowType((CHOOSE f \in {table_schema[k] : k \in 1 .. Len(table_schema)} :
                        f.name = c).data_type)
    ELSE parsed.val[stat_name].fields[c].type

LiteralType(l) == IF l.scalar.type = "Integer" THEN "Int32" ELSE "Int64"

\* the statistic is there for file i, with the type of the literal
Usable(stat_name, e, i) ==
    /\ ~GivenStat(stat_name, e.left.name, i).null
    /\ StoredType(stat_name, e.left.name) = LiteralType(e.right)

\* the nodes of the predicate
SubExprs == {walk(predicate)[k] : k \in 1 .. Len(walk(predicate))}

\* what node e compiled to, and what its plan evaluated to
Compiled(e) ==
    IF e = predicate THEN filter ELSE extract_metadata_filters(e, parsed.val)

Result(e) ==
    IF e = predicate /\ Invoked THEN raw ELSE Invoke(Compiled(e).val)

\* the leaves of a compiled plan
RECURSIVE PlanLeaves(_)
PlanLeaves(fn) ==
    IF fn.f \in {"and", "or"}
    THEN PlanLeaves(fn.left) \cup PlanLeaves(fn.right)
    ELSE {fn}

\* column OP integer-or-long literal, OP one of <, <=, >, >=, =
IsComparison(e) ==
    /\ e.kind = "BinaryOperation"
    /\ e.op \in ConvertibleOps
    /\ e.left.kind = "Column"
    /\ e.right.kind = "Literal"
    /\ e.right.scalar.type \in {"Integer", "Long"}

IsJunction(e) == e.kind = "BinaryOperation" /\ e.op \in {"And", "Or"}

\* built from AND, OR and comparisons only
RECURSIVE IsComparisonTree(_)
IsComparisonTree(e) ==
    IF IsJunction(e)
    THEN IsComparisonTree(e.left) /\ IsComparisonTree(e.right)
    ELSE IsComparison(e)

\* the row predicate on a row whose column values are a[c]
RECURSIVE RowEval(_, _)
RowEval(e, a) ==
    CASE e.op = "And" -> RowEval(e.left, a) /\ RowEval(e.right, a)
      [] e.op = "Or" -> RowEval(e.left, a) \/ RowEval(e.right, a)
      [] e.op = "LessThan" -> a[e.left.name] < e.right.scalar.v
      [] e.op = "LessThanOrEqual" -> a[e.left.name] <= e.right.scalar.v
      [] e.op = "GreaterThan" -> a[e.left.name] > e.right.scalar.v
      [] e.op = "GreaterThanOrEqual" -> a[e.left.name] >= e.right.scalar.v
      [] e.op = "Equal" -> a[e.left.name] = e.right.scalar.v

\* file i has a min and a max for every column of cols
StatsPresent(cols, i) ==
    \A c \in cols :
        ~GivenStat("minValues", c, i).null /\ ~GivenStat("maxValues", c, i).null

\* the rows file i can hold: every column within the file's [min, max]
RowsOf(cols, i) ==
    LET lo == [c \in cols |-> GivenStat("minValues", c, i).v]
        hi == [c \in cols |-> GivenStat("maxValues", c, i).v]
    IN  {a \in [cols -> 5 .. 5 * MaxK] :
            \A c \in cols : lo[c] <= a[c] /\ a[c] <= hi[c]}

(* C1: the keep-mask of line 69 is true where the raw skipping result is
   null, false where it is false and true where it is true, so a file
   whose statistics are null survives the scan. *)
C1_UnknownKept ==
    Masked =>
        \A i \in 1 .. Len(raw.val) :
            /\ raw.val[i] = "null" => skipping_vector[i] = "true"
            /\ raw.val[i] = "false" => skipping_vector[i] = "false"
            /\ raw.val[i] = "true" => skipping_vector[i] = "true"
            /\ (pc = "done" /\ ~json_stats.val[i].some) =>
                    \E k \in 1 .. Len(after) : after[k] = i

(* C2: soundness. For a predicate built from AND, OR and comparisons that
   compiled, and a file with min and max present for every referenced
   column: if some row within the file's ranges satisfies the predicate,
   the file's mask entry is true, and the file survives the scan. *)
C2_Sound ==
    (Invoked /\ raw.ok /\ IsComparisonTree(predicate)) =>
        LET cols == references(predicate)
        IN  \A i \in 1 .. NumRows :
                (/\ StatsPresent(cols, i)
                 /\ \E a \in RowsOf(cols, i) : RowEval(predicate, a))
                => /\ raw.val[i] = "true"
                   /\ Masked => skipping_vector[i] = "true"
                   /\ (Masked /\ pc = "done") =>
                          \E k \in 1 .. Len(after) : after[k] = i

\* a scan of two files under a conjunction over x and y: the first file
\* can hold a matching row and is kept, the second cannot and is pruned
C2_Witness ==
    /\ pc = "done"
    /\ Masked
    /\ IsComparisonTree(predicate)
    /\ predicate.op = "And"
    /\ references(predicate) = {"x", "y"}
    /\ NumRows = 2
    /\ StatsPresent({"x", "y"}, 1) /\ StatsPresent({"x", "y"}, 2)
    /\ \E a \in RowsOf({"x", "y"}, 1) : RowEval(predicate, a)
    /\ after = <<1>>

(* C3: the AND arm. When both legs compile, the plan evaluates to the
   row-wise AND of the two sub-masks (null where either is null); when
   exactly one leg compiles, the result is that leg's compiled predicate;
   when neither compiles, the result is None. *)
C3_AndArm ==
    Extracted =>
        \A e \in {n \in SubExprs : n.kind = "BinaryOperation" /\ n.op = "And"} :
            LET l == Compiled(e.left)
                r == Compiled(e.right)
            IN  /\ (l.some /\ r.some) =>
                    /\ Compiled(e).some
                    /\ (Result(e.left).ok /\ Result(e.right).ok) =>
                        /\ Result(e).ok
                        /\ Len(Result(e).val) = NumRows
                        /\ \A i \in 1 .. NumRows :
                            LET a == Result(e.left).val[i]
                                b == Result(e.right).val[i]
                            IN  Result(e).val[i] =
                                    IF a = "null" \/ b = "null" THEN "null"
                                    ELSE BoolCell(a = "true" /\ b = "true")
                /\ (l.some /\ ~r.some) =>
                        Compiled(e) = l /\ Result(e) = Invoke(l.val)
                /\ (~l.some /\ r.some) =>
                        Compiled(e) = r /\ Result(e) = Invoke(r.val)
                /\ (~l.some /\ ~r.some) => Compiled(e) = None

\* a conjunction whose left leg does not compile was evaluated as its right
\* leg alone, and pruned the file
C3_Witness ==
    /\ Invoked /\ pc = "done"
    /\ predicate.kind = "BinaryOperation" /\ predicate.op = "And"
    /\ ~Compiled(predicate.left).some
    /\ Compiled(predicate.right).some
    /\ raw = Ok(<<"false">>)
    /\ after = <<>>

(* C4: the OR arm. A disjunction compiles to None whenever either of its
   disjuncts compiles to None, at any nesting depth; when both compile,
   the plan evaluates to the row-wise OR of the two sub-masks. *)
C4_OrArm ==
    Extracted =>
        \A e \in {n \in SubExprs : n.kind = "BinaryOperation" /\ n.op = "Or"} :
            LET l == Compiled(e.left)
                r == Compiled(e.right)
            IN  /\ (~l.some \/ ~r.some) =>
                    /\ Compiled(e) = None
                    /\ e = predicate => pc \in {"unconvertible", "done"}
                /\ (l.some /\ r.some) =>
                    /\ Compiled(e).some
                    /\ (Result(e.left).ok /\ Result(e.right).ok) =>
                        /\ Result(e).ok
                        /\ Len(Result(e).val) = NumRows
                        /\ \A i \in 1 .. NumRows :
                            LET a == Result(e.left).val[i]
                                b == Result(e.right).val[i]
                            IN  Result(e).val[i] =
                                    IF a = "null" \/ b = "null" THEN "null"
                                    ELSE BoolCell(a = "true" \/ b = "true")

\* a disjunction nested in a disjunction: the inner one has a disjunct that
\* does not compile, and the whole predicate compiled to None
C4_Witness ==
    /\ pc = "unconvertible"
    /\ predicate.kind = "BinaryOperation" /\ predicate.op = "Or"
    /\ predicate.left.kind = "BinaryOperation" /\ predicate.left.op = "Or"
    /\ Compiled(predicate.left.left).some
    /\ ~Compiled(predicate.left.right).some
    /\ Compiled(predicate.right).some
    /\ filter = None

(* C5: leaf semantics. With a non-null statistic of the literal's type,
   col < v is min < v and col <= v is min <= v, whatever maxValues holds;
   col > v is max > v and col >= v is max >= v, whatever minValues holds;
   col = v is min <= v and v <= max. With min = 5 and max = 15, x < 10
   evaluates to [true] and x > 20 to [false]. *)
C5_Leaf ==
    (Invoked /\ IsComparison(predicate)) =>
        /\ \A i \in 1 .. NumRows :
            LET c == predicate.left.name
                v == predicate.right.scalar.v
                lo == GivenStat("minValues", c, i)
                hi == GivenStat("maxValues", c, i)
            IN  /\ (predicate.op = "LessThan"
                        /\ Usable("minValues", predicate, i)) =>
                        raw.ok /\ raw.val[i] = BoolCell(lo.v < v)
                /\ (predicate.op = "LessThanOrEqual"
                        /\ Usable("minValues", predicate, i)) =>
                        raw.ok /\ raw.val[i] = BoolCell(lo.v <= v)
                /\ (predicate.op = "GreaterThan"
                        /\ Usable("maxValues", predicate, i)) =>
                        raw.ok /\ raw.val[i] = BoolCell(hi.v > v)
                /\ (predicate.op = "GreaterThanOrEqual"
                        /\ Usable("maxValues", predicate, i)) =>
                        raw.ok /\ raw.val[i] = BoolCell(hi.v >= v)
                /\ (predicate.op = "Equal"
                        /\ Usable("minValues", predicate, i)
                        /\ Usable("maxValues", predicate, i)) =>
                        raw.ok /\ raw.val[i] = BoolCell(lo.v <= v /\ v <= hi.v)
        /\ (json_stats = Some(<<Some(RangeStats(5, 15))>>)
                /\ predicate.left.name = "x"
                /\ predicate.right.scalar = Integer(10)
                /\ predicate.op = "LessThan") => raw = Ok(<<"true">>)
        /\ (json_stats = Some(<<Some(RangeStats(5, 15))>>)
                /\ predicate.left.name = "x"
                /\ predicate.right.scalar = Integer(20)
                /\ predicate.op = "GreaterThan") => raw = Ok(<<"false">>)

\* x > 20 was evaluated on the statistics min = 5, max = 15
C5_Witness ==
    /\ Invoked
    /\ json_stats = Some(<<Some(RangeStats(5, 15))>>)
    /\ predicate =
            BinaryOperation("GreaterThan", Column("x"), Literal(Integer(20)))
    /\ raw = Ok(<<"false">>)

(* C6: a leaf compiles to Some exactly when it is a binary operation whose
   operator is one of <, <=, >, >=, =, whose left operand is a Column and
   whose right operand is an Integer or Long literal; every other leaf
   compiles to None and never to an evaluation error. *)
C6_LeafShape ==
    (Extracted /\ ~IsJunction(predicate)) =>
        /\ filter.some <=> IsComparison(predicate)
        /\ ~IsComparison(predicate) =>
                filter = None /\ raw.ok /\ pc \in {"unconvertible", "done"}

\* a comparison with a string literal compiled to None
C6_Witness ==
    /\ pc = "unconvertible"
    /\ predicate =
            BinaryOperation("Equal", Column("x"), Literal(String("foo")))
    /\ filter = None

(* C7: a convertible comparison whose column is absent from the statistics
   batch, or a batch lacking minValues or maxValues, still compiles to
   Some; the failure appears only when the plan is invoked, as an error
   result; and an error in any compiled leaf of an AND/OR plan is the
   result of the whole evaluation, whatever its siblings evaluate to. *)
C7_DeferredError ==
    /\ (Extracted /\ IsComparison(predicate)) =>
            /\ filter.some
            /\ pc = "invoke" => raw.ok
            /\ (Invoked /\ ~Invoke(filter.val).ok) =>
                    /\ ~raw.ok
                    /\ pc = "failed"
                    /\ skipping_vector = <<>> /\ after = <<>>
            /\ (/\ Invoked
                /\ predicate.op \in {"LessThan", "LessThanOrEqual", "Equal"}
                /\ ~get_stats_col(parsed.val, "minValues",
                                   predicate.left.name).ok) => ~raw.ok
            /\ (/\ Invoked
                /\ predicate.op \in {"GreaterThan", "GreaterThanOrEqual",
                                      "Equal"}
                /\ ~get_stats_col(parsed.val, "maxValues",
                                   predicate.left.name).ok) => ~raw.ok
    /\ Invoked =>
            LET failing == {f \in PlanLeaves(filter.val) : ~Invoke(f).ok}
            IN  failing # {} =>
                    /\ raw \in {Invoke(f) : f \in failing}
                    /\ pc = "failed"
                    /\ skipping_vector = <<>> /\ after = <<>>

\* a conjunction of a comparison that evaluates and one on a column the
\* statistics do not have: the evaluation failed with the error of the leaf
C7_Witness ==
    /\ pc = "failed"
    /\ Invoked
    /\ predicate.kind = "BinaryOperation" /\ predicate.op = "And"
    /\ IsComparison(predicate.left) /\ IsComparison(predicate.right)
    /\ Invoke(Compiled(predicate.left).val).ok
    /\ ~Invoke(Compiled(predicate.right).val).ok
    /\ raw = Err("SchemaError", "No such column", "z")

\* statistics batches to compile the predicate against a second time: the
\* ones handed over directly (a statistic missing, one that is no struct,
\* another width), a batch without any column, the batch of a file without
\* statistics (every cell null), and the batch of a file with a range
SecondBatches(pred) ==
    DirectBatches
        \cup {<<>>,
              parse_stats(data_fields_of(pred), <<None>>).val,
              parse_stats(data_fields_of(pred),
                          <<Some(RangeStats(5, 15))>>).val}

\* C22: whether extract_metadata_filters returns Some or None does not
\* depend on the statistics batch: compiled against any second batch, the
\* predicate gives None exactly when it gave None against the batch of the
\* scan (so any two batches agree with each other).
C22_ShapeOnly ==
    Extracted =>
        \A s2 \in SecondBatches(predicate) :
            extract_metadata_filters(predicate, s2).some = filter.some

\* x < 10 was compiled against a batch that has no minValues, and gave a
\* computation all the same
C22_Witness ==
    /\ Extracted
    /\ filter.some
    /\ predicate
          = BinaryOperation("LessThan", Column("x"), Literal(Integer(10)))
    /\ "minValues" \notin DOMAIN parsed.val

---------------------------------------------------------------------------
(* AndSpec: the construction protocol with visit_expression_and. The call
   is followed pull by pull: each step is one call of the engine's
   get_next, and what flat_map and the body of the builder do with it. *)

\* children per pull-sequence
MaxChildren == 3

\* the engine's iterator: data is the sequence of handles the engine means
\* to hand over, pos how many it has handed over, calls how often get_next
\* was called and nulls how often it answered null. A handle is passed as
\* the pointer itself (child as usize), so the handle 0 is the null pointer
EngineIterator(data) == [data |-> data, pos |-> 0, calls |-> 0, nulls |-> 0]

\* (self.get_next)(self.data)
get_next(it) ==
    IF it.pos < Len(it.data) THEN it.data[it.pos + 1] ELSE 0

\* Iterator::next of EngineIterator
EngineIterator_next(it) ==
    LET next_item == get_next(it)
    IN  [ret |-> IF next_item = 0 THEN None ELSE Some(next_item),
         it |-> [it EXCEPT !.pos = IF it.pos < Len(it.data) THEN @ + 1 ELSE @,
                           !.calls = @ + 1,
                           !.nulls = IF next_item = 0 THEN @ + 1 ELSE @]]

\* the pull-sequences an engine hands over
ChildSequences == UNION {[1 .. n -> Handles] : n \in 0 .. MaxChildren}

\* the body of visit_expression_and between two pulls: pc "left" waits for
\* the first child, "right" for the second, "rest" is the for loop
and_fold_right_assoc(call, child) ==
    CASE call.pc = "left" -> [call EXCEPT !.pc = "right", !.left = child]
      [] call.pc = "right" ->
            [call EXCEPT !.pc = "rest",
                         !.result = BinaryOperation("And", call.left, child)]
      [] call.pc = "rest" ->
            [call EXCEPT !.result = BinaryOperation("And", child, call.result)]

and_fold(call, child) ==
    CASE call.pc = "left" -> [call EXCEPT !.pc = "right", !.left = child]
      [] call.pc = "right" ->
            [call EXCEPT !.pc = "rest",
                         !.result = BinaryOperation("And", call.left, child)]
      [] call.pc = "rest" ->
            [call EXCEPT !.result = BinaryOperation("And", call.result, child)]

\* the three returns, taken when children.next() is None
and_return_nothing(state, call) ==
    CASE call.pc = "left" -> [set |-> state, ret |-> 0]
      [] call.pc = "right" -> [set |-> state, ret |-> 0]
      [] call.pc = "rest" -> wrap_expression(state, call.result)

and_return(state, call) ==
    CASE call.pc = "left" -> [set |-> state, ret |-> 0]
      [] call.pc = "right" -> wrap_expression(state, call.left)
      [] call.pc = "rest" -> wrap_expression(state, call.result)

\* the builder goes on pulling until children.next() is None
and_returns_after_two(call, next) == ~next.some \/ call.pc = "rest"

and_returns(call, next) == ~next.some

\* entry: the engine calls visit_expression_and(state, children)
visit_expression_and(data) ==
    /\ and_call.pc = "idle"
    /\ inflight_expressions.id <= MaxInserts + 1
    /\ and_call' = [pc |-> "left", children |-> EngineIterator(data),
                    pre |-> inflight_expressions, left |-> None,
                    result |-> None, ret |-> 0]
    /\ last' = Call("and_enter", 0, 0, 0, None)
    /\ UNCHANGED << inflight_expressions, returned, consumed, skipVars,
                    scan_builder, visit, walker >>

\* one pull: children.next(), and the step of the body that follows it
children_next ==
    /\ and_call.pc \in {"left", "right", "rest"}
    /\ LET n == EngineIterator_next(and_call.children)
           pulled == [and_call EXCEPT !.children = n.it]
       IN  IF and_returns(and_call, n.ret)
           THEN LET r == and_return(inflight_expressions, and_call)
                IN  /\ inflight_expressions' = r.set
                    /\ returned' =
                          returned \o Inserted(inflight_expressions, r)
                    /\ consumed' = consumed
                    /\ and_call' =
                          [pulled EXCEPT !.pc = "returned", !.ret = r.ret]
                    /\ last' = Call("and", 0, 0, r.ret, None)
           ELSE LET child == unwrap_kernel_expression(inflight_expressions,
                                                      n.ret.val)
                IN  /\ inflight_expressions' = child.set
                    /\ returned' = returned
                    /\ consumed' =
                          consumed \cup Gone(inflight_expressions, child.set)
                    /\ and_call' =
                          IF child.ret.some
                          THEN and_fold(pulled, child.ret.val)
                          ELSE pulled
                    /\ last' = Call("get_next", n.ret.val, 0, 0, child.ret)
    /\ UNCHANGED << skipVars, scan_builder, visit, walker >>

\* the engine builds leaves, then calls visit_expression_and once, with
\* any pull-sequence
AndNext ==
    \/ /\ and_call.pc = "idle"
       /\ \/ \E name \in ColumnNames : visit_expression_column(name)
          \/ \E value \in LongValues : visit_expression_literal_long(value)
    \/ \E data \in ChildSequences : visit_expression_and(data)
    \/ children_next

AndSpec == Init /\ [][AndNext]_vars

\* what the engine handed over before it signalled exhaustion: a 0 in the
\* data is the null pointer
RECURSIVE Pulled(_)
Pulled(data) ==
    IF data = <<>> \/ data[1] = 0 THEN <<>>
    ELSE <<data[1]>> \o Pulled(Tail(data))

\* the handles of seq that resolve against the table `state`, in order: in
\* the table, and not named earlier in seq
RECURSIVE Resolving(_, _)
Resolving(state, seq) ==
    IF seq = <<>> THEN <<>>
    ELSE LET h == seq[Len(seq)]
             front == SubSeq(seq, 1, Len(seq) - 1)
         IN  IF contains(state, h) /\ \A j \in 1 .. Len(front) : front[j] # h
             THEN Append(Resolving(state, front), h)
             ELSE Resolving(state, front)

\* (((c1 AND c2) AND c3) ... AND cn)
RECURSIVE Chain(_)
Chain(nodes) ==
    IF Len(nodes) = 1 THEN nodes[1]
    ELSE BinaryOperation("And", Chain(SubSeq(nodes, 1, Len(nodes) - 1)),
                         nodes[Len(nodes)])

\* the nodes the handles of hs refer to in the table `state`
NodesOf(state, hs) == [k \in 1 .. Len(hs) |-> state.map[hs[k]]]

\* the table after the call: the entries of hs gone, and `node` under a
\* fresh handle
Folded(pre, hs, node) ==
    [map |-> [i \in (DOMAIN pre.map \ {hs[k] : k \in 1 .. Len(hs)})
                        \cup {pre.id} |->
                 IF i = pre.id THEN node ELSE pre.map[i]],
     id |-> pre.id + 1]

\* the table after the call when nothing is inserted
Unfolded(pre, hs) ==
    [map |-> [i \in DOMAIN pre.map \ {hs[k] : k \in 1 .. Len(hs)} |->
                 pre.map[i]],
     id |-> pre.id]

AndReturned == and_call.pc = "returned"

(* C12 as stated: when exactly one child of the pull-sequence resolves,
   visit_expression_and returns that child's own handle, and creates no
   table entry (the next id does not advance). *)
C12_SameHandle ==
    AndReturned =>
        LET rs == Resolving(and_call.pre, Pulled(and_call.children.data))
        IN  Len(rs) = 1 =>
                /\ and_call.ret = rs[1]
                /\ inflight_expressions.id = and_call.pre.id

(* C12, amended: when exactly one child of the pull-sequence resolves,
   visit_expression_and consumes the child's handle and returns a fresh
   handle to the child's node itself: no wrapping node is created, the
   next id advances by one, and the other entries are untouched. *)
C12_Rewrapped ==
    AndReturned =>
        LET rs == Resolving(and_call.pre, Pulled(and_call.children.data))
        IN  Len(rs) = 1 =>
                /\ and_call.ret = and_call.pre.id
                /\ and_call.ret # rs[1]
                /\ ~contains(inflight_expressions, rs[1])
                /\ inflight_expressions
                      = Folded(and_call.pre, rs, and_call.pre.map[rs[1]])

\* one resolving child among handles that do not resolve, other entries
\* left in the table
C12_Witness ==
    /\ AndReturned
    /\ Len(Resolving(and_call.pre, Pulled(and_call.children.data))) = 1
    /\ Len(Pulled(and_call.children.data)) = MaxChildren
    /\ len(inflight_expressions) >= 2
    /\ and_call.ret # 0

(* C13: visit_expression_and returns 0 when no child of the pull-sequence
   resolves, inserting nothing; for two or more resolving children
   c1 .. cn, in the order the sequence produced them, it returns a fresh
   handle to (((c1 AND c2) AND c3) ... AND cn), with every ci gone from
   the table and exactly one entry inserted. *)
C13_Chain ==
    AndReturned =>
        LET rs == Resolving(and_call.pre, Pulled(and_call.children.data))
        IN  /\ Len(rs) = 0 =>
                /\ and_call.ret = 0
                /\ inflight_expressions = and_call.pre
            /\ Len(rs) >= 2 =>
                /\ and_call.ret = and_call.pre.id
                /\ and_call.ret >= 1
                /\ ~contains(and_call.pre, and_call.ret)
                /\ \A k \in 1 .. Len(rs) :
                        ~contains(inflight_expressions, rs[k])
                /\ inflight_expressions
                      = Folded(and_call.pre, rs,
                               Chain(NodesOf(and_call.pre, rs)))

\* three resolving children, not all the same node
C13_Witness ==
    /\ AndReturned
    /\ LET rs == Resolving(and_call.pre, Pulled(and_call.children.data))
       IN  /\ Len(rs) = 3
           /\ and_call.pre.map[rs[1]] # and_call.pre.map[rs[3]]
           /\ rs[1] > rs[2]
    /\ inflight_expressions.map[and_call.ret].left.kind = "BinaryOperation"

(* C14: a child handle that does not resolve (never assigned, already
   consumed, or the sentinel 0) is skipped, and the children after it are
   still processed: the result is the fold over the resolving handles of
   the whole pull-sequence. *)
C14_SkipInvalid ==
    AndReturned =>
        LET rs == Resolving(and_call.pre, and_call.children.data)
        IN  /\ Len(rs) = 0 => and_call.ret = 0
            /\ Len(rs) >= 1 =>
                /\ and_call.ret # 0
                /\ inflight_expressions.map[and_call.ret]
                      = Chain(NodesOf(and_call.pre, rs))
                /\ \A k \in 1 .. Len(rs) :
                        ~contains(inflight_expressions, rs[k])

(* C15: during one visit_expression_and call get_next is called until it
   answers null, whether zero, one or several children resolve, and never
   again after it answered null; every pull takes the engine's sequence
   one item further, so the call returns after at most one pull per item
   and one more. *)
C15_Exhaustion ==
    /\ and_call.pc \in {"left", "right", "rest"} =>
            /\ and_call.children.nulls = 0
            /\ and_call.children.calls = and_call.children.pos
            /\ and_call.children.calls <= Len(and_call.children.data)
    /\ AndReturned =>
            /\ and_call.children.nulls = 1
            /\ and_call.children.calls
                  = Len(Pulled(and_call.children.data)) + 1
            /\ and_call.children.calls <= Len(and_call.children.data) + 1

\* a call with several resolving children has returned
C15_Witness ==
    /\ AndReturned
    /\ and_call.children.calls = MaxChildren + 1
    /\ Len(Resolving(and_call.pre, Pulled(and_call.children.data)))
          = MaxChildren

---------------------------------------------------------------------------
(* ReuseSpec: handles across builder calls. The engine builds columns,
   calls visit_expression_lt with any handles at any time, and calls
   visit_expression_and once, with any two children. *)

TwoChildren == [1 .. 2 -> Handles]

ReuseNext ==
    \/ /\ and_call.pc = "idle"
       /\ \E name \in ColumnNames : visit_expression_column(name)
    \/ /\ and_call.pc \in {"idle", "returned"}
       /\ \E a, b \in Handles : visit_expression_lt(a, b)
    \/ \E data \in TwoChildren : visit_expression_and(data)
    \/ children_next

ReuseSpec == Init /\ [][ReuseNext]_vars

\* the handles of the table `state` that were assigned and are consumed
Stale(state) == (1 .. (state.id - 1)) \ DOMAIN state.map

\* the Column nodes of an expression, counted with repetition
RECURSIVE ColumnCount(_)
ColumnCount(e) ==
    CASE e.kind = "Column" -> 1
      [] e.kind = "BinaryOperation" ->
            ColumnCount(e.left) + ColumnCount(e.right)
      [] e.kind = "UnaryOperation" -> ColumnCount(e.expr)
      [] OTHER -> 0

RECURSIVE TableColumns(_, _)
TableColumns(state, ids) ==
    IF ids = {} THEN 0
    ELSE LET i == CHOOSE j \in ids : TRUE
         IN  ColumnCount(state.map[i]) + TableColumns(state, ids \ {i})

\* the Column nodes held by the table and by a visit_expression_and call
\* between two pulls
LiveColumns(state, call) ==
    TableColumns(state, DOMAIN state.map)
        + (CASE call.pc = "right" -> ColumnCount(call.left)
             [] call.pc = "rest" -> ColumnCount(call.result)
             [] OTHER -> 0)

(* C11 as stated: once a handle has been consumed, every later builder
   call that names it as an input returns 0, the variadic AND builder
   included, and no call but a leaf builder adds a node to the table. *)
C11_SingleUse ==
    [][/\ (last'.op = "lt"
            /\ (last'.a \in consumed \/ last'.b \in consumed)) =>
                last'.ret = 0
       /\ (last'.op = "and"
            /\ \E k \in 1 .. Len(Pulled(and_call.children.data)) :
                    and_call.children.data[k] \in Stale(and_call.pre)) =>
                last'.ret = 0
       /\ LiveColumns(inflight_expressions', and_call')
            <= LiveColumns(inflight_expressions, and_call)
                 + (IF last'.op = "column" THEN 1 ELSE 0)
    ]_vars

(* C11, amended: once a handle has been consumed, every later
   visit_expression_lt call that names it returns 0 and inserts nothing,
   however often it is called; visit_expression_and skips it and folds
   its other children; a consumed handle never resolves again, and no
   call but a leaf builder adds a node: the node is not re-inserted,
   duplicated or reachable from two live entries. *)
C11_SingleUseBinary ==
    [][/\ (last'.op = "lt"
            /\ (last'.a \in consumed \/ last'.b \in consumed)) =>
                /\ last'.ret = 0
                /\ DOMAIN inflight_expressions'.map
                      \subseteq DOMAIN inflight_expressions.map
                /\ inflight_expressions'.id = inflight_expressions.id
       /\ (last'.op = "get_next" /\ last'.a \in consumed) =>
                /\ last'.node = None
                /\ inflight_expressions' = inflight_expressions
                /\ and_call'.pc = and_call.pc
                /\ and_call'.left = and_call.left
                /\ and_call'.result = and_call.result
       /\ \A h \in consumed : ~contains(inflight_expressions', h)
       /\ LiveColumns(inflight_expressions', and_call')
            <= LiveColumns(inflight_expressions, and_call)
                 + (IF last'.op = "column" THEN 1 ELSE 0)
    ]_vars

\* visit_expression_and skipped a consumed handle and returned a handle;
\* then visit_expression_lt was called with a consumed handle, twice over
C11_Witness ==
    /\ AndReturned
    /\ and_call.ret # 0
    /\ \E k \in 1 .. Len(Pulled(and_call.children.data)) :
            and_call.children.data[k] \in Stale(and_call.pre)
    /\ last.op = "lt"
    /\ last.a = last.b
    /\ last.a \in consumed
    /\ last.ret = 0

---------------------------------------------------------------------------
(* ScanSpec: get_scan_files. Each invocation with a predicate allocates
   the visitor state, runs the engine's visitor on it (the visitor calls
   the builders, in any order, with any handles, and returns any handle)
   and binds what the returned handle resolves to. *)

\* invocations of get_scan_files
MaxScans == 2

\* KernelExpressionVisitorState::new()
KernelExpressionVisitorState_new == ReferenceSet_default

\* lines 333-336: the predicate the scan is built with, and the visitor
\* state after the take
with_predicate_any(state, exprid) ==
    LET r == unwrap_kernel_expression(state, exprid)
    IN  IF r.ret.some \/ state.map = <<>>
        THEN [set |-> r.set, predicate |-> r.ret]
        ELSE LET i == CHOOSE j \in DOMAIN state.map : TRUE
             IN  [set |-> unwrap_kernel_expression(state, i).set,
                  predicate |-> Some(state.map[i])]

with_predicate(state, exprid) ==
    LET r == unwrap_kernel_expression(state, exprid)
    IN  [set |-> r.set, predicate |-> r.ret]

\* get_scan_files(snapshot, Some(predicate)), up to the visitor call
get_scan_files ==
    /\ scan_builder.pc \in {"idle", "built"}
    /\ (IF scan_builder.pc = "idle" THEN 0 ELSE scan_builder.scans) < MaxScans
    /\ inflight_expressions' = KernelExpressionVisitorState_new
    /\ returned' = <<>>
    /\ consumed' = {}
    /\ last' = Call("visitor", 0, 0, 0, None)
    /\ scan_builder' =
          [pc |-> "visitor", predicate |-> None,
           scans |-> IF scan_builder.pc = "idle" THEN 1
                     ELSE scan_builder.scans + 1,
           visitor_calls |-> 1]
    /\ UNCHANGED << skipVars, and_call, visit, walker >>

\* get_scan_files(snapshot, None): no visitor state, no predicate
get_scan_files_none ==
    /\ scan_builder.pc \in {"idle", "built"}
    /\ (IF scan_builder.pc = "idle" THEN 0 ELSE scan_builder.scans) < MaxScans
    /\ last' = Call("scan", 0, 0, 0, None)
    /\ scan_builder' =
          [pc |-> "built", predicate |-> None,
           scans |-> IF scan_builder.pc = "idle" THEN 1
                     ELSE scan_builder.scans + 1,
           visitor_calls |-> 0]
    /\ UNCHANGED << inflight_expressions, returned, consumed, skipVars,
                    and_call, visit, walker >>

\* the visitor returns exprid: lines 333-336, and the visitor state is
\* dropped with whatever it still holds
visitor_returns(exprid) ==
    /\ scan_builder.pc = "visitor"
    /\ LET r == with_predicate(inflight_expressions, exprid)
       IN  /\ inflight_expressions' = r.set
           /\ consumed' = consumed \cup Gone(inflight_expressions, r.set)
           /\ last' = Call("scan", exprid, 0, 0, r.predicate)
           /\ scan_builder' = [scan_builder EXCEPT !.pc = "built",
                                                   !.predicate = r.predicate]
    /\ UNCHANGED << returned, skipVars, and_call, visit, walker >>

ScanNext ==
    \/ get_scan_files
    \/ get_scan_files_none
    \/ /\ scan_builder.pc = "visitor"
       /\ \/ \E name \in ColumnNames : visit_expression_column(name)
          \/ \E value \in LongValues : visit_expression_literal_long(value)
          \/ \E a, b \in Handles : visit_expression_lt(a, b)
    \/ \E exprid \in Handles : visitor_returns(exprid)

ScanSpec == Init /\ [][ScanNext]_vars

(* C16: each get_scan_files invocation with a predicate starts from a
   fresh, empty table whose next id is 1 and calls the visitor once; when
   the visitor returns, the root handle is taken: if it resolves, the
   expression taken is the scan's predicate, and if it is 0, never
   assigned or already consumed, the scan is built with no predicate, not
   failed. No table state survives into the next invocation. *)
C16_Binding ==
    [][/\ last'.op = "visitor" =>
            /\ inflight_expressions' = [map |-> <<>>, id |-> 1]
            /\ scan_builder'.visitor_calls = 1
            /\ scan_builder'.predicate = None
            /\ \A h \in Handles : ~contains(inflight_expressions', h)
       /\ (scan_builder.pc = "visitor" /\ returned = <<>>
            /\ returned' # <<>>) => returned'[1].id = 1
       /\ (last'.op = "scan" /\ scan_builder.pc = "visitor") =>
            /\ scan_builder'.pc = "built"
            /\ scan_builder'.visitor_calls = 1
            /\ IF contains(inflight_expressions, last'.a)
               THEN /\ scan_builder'.predicate
                         = Some(inflight_expressions.map[last'.a])
                    /\ ~contains(inflight_expressions', last'.a)
               ELSE /\ last'.a \in {0} \cup consumed
                         \cup (Handles \ {returned[k].id :
                                              k \in 1 .. Len(returned)})
                    /\ scan_builder'.predicate = None
    ]_vars

\* the last invocation: its visitor built x < 10 on its own table, where
\* the ids start at 1 again, and returned the handle of it
C16_Witness ==
    /\ scan_builder.pc = "built"
    /\ scan_builder.scans = MaxScans
    /\ scan_builder.predicate
          = Some(BinaryOperation("LessThan", Column("x"), Literal(Long(10))))
    /\ last.a = MaxInserts

---------------------------------------------------------------------------
(* expressions.rs: references, walk and Display applied to expression trees *)

\* the expression trees the functions are applied to: the leaves, every
\* operation over leaves, chains of arithmetic of the shape of the tests
\* (left-nested and right-nested), junctions of comparisons, junctions of
\* junctions, and unary operations over all of these kinds
TreeColumns == {"x", "y"}
TreeIntegers == {2, 4, 10, 42}
LiteralLeaves ==
    {Literal(Integer(v)) : v \in TreeIntegers} \cup {Literal(String("foo"))}
NumberLeaves == {Literal(Integer(v)) : v \in TreeIntegers}
ColumnLeaves == {Column(c) : c \in TreeColumns}
AllLeaves == ColumnLeaves \cup LiteralLeaves

Arithmetic == {"Plus", "Minus", "Multiply", "Divide"}
Comparison ==
    {"LessThan", "LessThanOrEqual", "GreaterThan", "GreaterThanOrEqual",
     "Equal", "NotEqual"}
Junction == {"And", "Or"}

OverLeaves ==
    {BinaryOperation(op, l, r) : op \in BinaryOperator, l \in AllLeaves,
                                 r \in AllLeaves}
Grow(ops, lefts, rights) ==
    {BinaryOperation(op, l, r) : op \in ops, l \in lefts, r \in rights}
Arith1 == Grow(Arithmetic, ColumnLeaves, NumberLeaves)
Arith2 == Grow(Arithmetic, Arith1, NumberLeaves)
Arith3 == Grow(Arithmetic, Arith2, NumberLeaves)
ArithRight == Grow(Arithmetic, NumberLeaves, Arith1)
Comparisons == Grow(Comparison, ColumnLeaves, NumberLeaves)
ComparedArith == Grow({"LessThan"}, Arith1, {Literal(Integer(10))})
ComparisonJunctions == Grow(Junction, Comparisons, Comparisons)
FewComparisons ==
    Grow({"LessThan"}, ColumnLeaves, {Literal(Integer(2))})
FewJunctions == Grow(Junction, FewComparisons, FewComparisons)
NestedJunctions ==
    Grow(Junction, FewJunctions \cup FewComparisons,
         FewJunctions \cup FewComparisons)
Unaries ==
    LET inner == AllLeaves \cup FewComparisons \cup FewJunctions
        once == {UnaryOperation(op, e) : op \in UnaryOperator, e \in inner}
    IN  once \cup {UnaryOperation(op, e) : op \in UnaryOperator, e \in once}
                 \cup Grow(Junction, once, FewComparisons)

ExprTrees ==
    AllLeaves \cup OverLeaves \cup Arith2 \cup Arith3 \cup ArithRight
        \cup ComparedArith \cup ComparisonJunctions \cup NestedJunctions
        \cup Unaries

\* impl Display for BinaryOperator
BinaryOperator_fmt(self) ==
    CASE self = "And" -> "AND"
      [] self = "Or" -> "OR"
      [] self = "Plus" -> "+"
      [] self = "Minus" -> "-"
      [] self = "Multiply" -> "*"
      [] self = "Divide" -> "/"
      [] self = "LessThan" -> "<"
      [] self = "LessThanOrEqual" -> "<="
      [] self = "GreaterThan" -> ">"
      [] self = "GreaterThanOrEqual" -> ">="
      [] self = "Equal" -> "="
      [] self = "NotEqual" -> "!="

\* impl Display for Scalar: a string in single quotes, a number bare
Scalar_fmt(self) ==
    IF self.type = "String" THEN "'" \o self.s \o "'" ELSE ToString(self.v)

\* a Display that writes Or like every other binary operation
RECURSIVE fmt_or_bare(_)
fmt_or_bare(self) ==
    CASE self.kind = "Literal" -> Scalar_fmt(self.scalar)
      [] self.kind = "Column" -> "Column(" \o self.name \o ")"
      [] self.kind = "BinaryOperation" ->
            fmt_or_bare(self.left) \o " " \o BinaryOperator_fmt(self.op)
                \o " " \o fmt_or_bare(self.right)
      [] self.kind = "UnaryOperation" /\ self.op = "Not" ->
            "NOT " \o fmt_or_bare(self.expr)
      [] self.kind = "UnaryOperation" /\ self.op = "IsNull" ->
            fmt_or_bare(self.expr) \o " IS NULL"

\* impl Display for Expression
RECURSIVE fmt(_)
fmt(self) ==
    CASE self.kind = "Literal" -> Scalar_fmt(self.scalar)
      [] self.kind = "Column" -> "Column(" \o self.name \o ")"
      [] self.kind = "BinaryOperation" /\ self.op = "Or" ->
            "(" \o fmt(self.left) \o " OR " \o fmt(self.right) \o ")"
      [] self.kind = "BinaryOperation" /\ self.op # "Or" ->
            fmt(self.left) \o " " \o BinaryOperator_fmt(self.op) \o " "
                \o fmt(self.right)
      [] self.kind = "UnaryOperation" /\ self.op = "Not" ->
            "NOT " \o fmt(self.expr)
      [] self.kind = "UnaryOperation" /\ self.op = "IsNull" ->
            fmt(self.expr) \o " IS NULL"

\* format!("{}", e)
call_fmt ==
    /\ walker.pc = "ready"
    /\ ~walker.text.some
    /\ walker' = [walker EXCEPT !.text = Some(fmt(walker.expr))]
    /\ UNCHANGED << tableVars, skipVars, and_call, scan_builder, visit >>

\* e.references(): the loop over e.walk() runs to the end of the iterator
call_references ==
    /\ walker.pc = "ready"
    /\ ~walker.refs.some
    /\ walker' = [walker EXCEPT !.visited = Some(walk(walker.expr)),
                                !.refs = Some(references(walker.expr))]
    /\ UNCHANGED << tableVars, skipVars, and_call, scan_builder, visit >>

ExprInit ==
    /\ TableIdle
    /\ SkipIdle
    /\ and_call = [pc |-> "idle"]
    /\ scan_builder = [pc |-> "idle"]
    /\ visit = [pc |-> "idle"]
    /\ \E e \in ExprTrees :
          walker = [pc |-> "ready", expr |-> e, visited |-> None,
                    refs |-> None, text |-> None]

ExprNext ==
    \/ call_references
    \/ call_fmt

ExprSpec == ExprInit /\ [][ExprNext]_vars

\* the names of the Column nodes of e, by the structure of e
RECURSIVE ColumnNamesOf(_)
ColumnNamesOf(e) ==
    CASE e.kind = "Column" -> {e.name}
      [] e.kind = "BinaryOperation" ->
            ColumnNamesOf(e.left) \cup ColumnNamesOf(e.right)
      [] e.kind = "UnaryOperation" -> ColumnNamesOf(e.expr)
      [] OTHER -> {}

RECURSIVE NodeCount(_)
NodeCount(e) ==
    CASE e.kind = "BinaryOperation" -> 1 + NodeCount(e.left) + NodeCount(e.right)
      [] e.kind = "UnaryOperation" -> 1 + NodeCount(e.expr)
      [] OTHER -> 1

\* how many nodes of e are the root of a subtree equal to n
RECURSIVE Occurs(_, _)
Occurs(n, e) ==
    (IF n = e THEN 1 ELSE 0)
    + CASE e.kind = "BinaryOperation" -> Occurs(n, e.left) + Occurs(n, e.right)
        [] e.kind = "UnaryOperation" -> Occurs(n, e.expr)
        [] OTHER -> 0

Visits(n, visited) == Cardinality({k \in 1 .. Len(visited) : visited[k] = n})

\* C17: for every expression tree, references(e) is exactly the set of the
\* names of the Column nodes of e (each name once, being a set, and nothing
\* else), and the walk ends after visiting every node of e exactly once: it
\* yields as many items as e has nodes, and each subtree as often as it
\* occurs in e.
C17_References ==
    (walker.pc = "ready" /\ walker.refs.some) =>
        LET e == walker.expr
            visited == walker.visited.val
        IN  /\ walker.refs.val = ColumnNamesOf(e)
            /\ Len(visited) = NodeCount(e)
            /\ visited[1] = e
            /\ \A k \in 1 .. Len(visited) :
                  Visits(visited[k], visited) = Occurs(visited[k], e)

\* references was applied to x >= 2 AND x <= 10, where the name x occurs
\* twice among seven nodes
C17_Witness ==
    /\ walker.pc = "ready"
    /\ walker.refs = Some({"x"})
    /\ walker.expr
          = BinaryOperation("And",
                BinaryOperation("GreaterThanOrEqual", Column("x"),
                                Literal(Integer(2))),
                BinaryOperation("LessThanOrEqual", Column("x"),
                                Literal(Integer(10))))
    /\ Len(walker.visited.val) = 7

\* the token of each binary operator
Token ==
    [And |-> "AND", Or |-> "OR", Plus |-> "+", Minus |-> "-",
     Multiply |-> "*", Divide |-> "/", LessThan |-> "<",
     LessThanOrEqual |-> "<=", GreaterThan |-> ">",
     GreaterThanOrEqual |-> ">=", Equal |-> "=", NotEqual |-> "!="]

RECURSIVE HasUnary(_)
HasUnary(e) ==
    CASE e.kind = "UnaryOperation" -> TRUE
      [] e.kind = "BinaryOperation" -> HasUnary(e.left) \/ HasUnary(e.right)
      [] OTHER -> FALSE

\* the text of a tree of binary operations, columns and literals
RECURSIVE Rendered(_)
Rendered(e) ==
    CASE e.kind = "Column" -> "Column(" \o e.name \o ")"
      [] e.kind = "Literal" ->
            IF e.scalar.type = "String" THEN "'" \o e.scalar.s \o "'"
            ELSE ToString(e.scalar.v)
      [] e.kind = "BinaryOperation" ->
            LET inner == Rendered(e.left) \o " " \o Token[e.op] \o " "
                            \o Rendered(e.right)
            IN  IF e.op = "Or" THEN "(" \o inner \o ")" ELSE inner

X == Column("x")
Lit(v) == Literal(Integer(v))

Example_And ==
    BinaryOperation("And", BinaryOperation("GreaterThanOrEqual", X, Lit(2)),
                    BinaryOperation("LessThanOrEqual", X, Lit(10)))
Example_Or ==
    BinaryOperation("Or", BinaryOperation("GreaterThan", X, Lit(2)),
                    BinaryOperation("LessThan", X, Lit(10)))
Example_Arith ==
    BinaryOperation("Multiply",
        BinaryOperation("Divide", BinaryOperation("Plus", X, Lit(4)),
                        Lit(10)),
        Lit(42))

\* C18: the text of an expression made of binary operations, columns and
\* literals is `left OP right` with the operator's token and no parentheses,
\* except Or, which is `(left OR right)`; operands are rendered in the same
\* way, left then right; a column is `Column(name)`, a string literal is in
\* single quotes, a number is bare.  The three examples render as stated.
C18_Display ==
    (walker.pc = "ready" /\ walker.text.some) =>
        LET e == walker.expr
            text == walker.text.val
        IN  /\ ~HasUnary(e) => text = Rendered(e)
            /\ e = Example_And => text = "Column(x) >= 2 AND Column(x) <= 10"
            /\ e = Example_Or => text = "(Column(x) > 2 OR Column(x) < 10)"
            /\ e = Example_Arith => text = "Column(x) + 4 / 10 * 42"

\* x > 2 OR x < 10 was formatted, with the parentheses of Or
C18_Witness ==
    /\ walker.pc = "ready"
    /\ walker.expr = Example_Or
    /\ walker.text = Some("(Column(x) > 2 OR Column(x) < 10)")

---------------------------------------------------------------------------
(* ffi/mod.rs: visit_schema, one callback of the engine's visitor at a time *)

MaxFields == 2

Primitive(t) == [kind |-> "Primitive", type |-> t]
StructType(fields) == [kind |-> "Struct", fields |-> fields]
StructField(name, data_type) == [name |-> name, data_type |-> data_type]

\* a field name with a 0 byte inside
NulName == "n\\0"

\* the names of the fields, by nesting level and position
NamesByLevel ==
    << <<"a", "b", "g", "h">>, <<"c", "d", "i", "j">>,
       <<"e", "f", "k", "l">> >>

Named(level, types) ==
    [i \in 1 .. Len(types) |-> StructField(NamesByLevel[level][i], types[i])]
UpToMaxFields(S) == UNION {[1 .. n -> S] : n \in 0 .. MaxFields}

\* the schemas visited: at the top integers, a type visit_schema does not
\* support, and structs; the structs hold strings and longs, and two of
\* them a struct of their own
FlatStructs ==
    {StructType(Named(2, ts)) :
        ts \in UpToMaxFields({Primitive("String"), Primitive("Long")})}
DeepStructs ==
    {StructType(Named(2, <<StructType(Named(3, <<Primitive("Integer")>>))>>)),
     StructType(Named(2, <<Primitive("String"), StructType(<<>>)>>))}
TopFields ==
    {Named(1, ts) :
        ts \in UpToMaxFields({Primitive("Integer"), Primitive("Boolean")}
                                \cup FlatStructs \cup DeepStructs)}

\* the fields of a list of fields, the nested ones included
RECURSIVE FieldCount(_)
FieldCount(fields) ==
    IF fields = <<>> THEN 0
    ELSE LET f == Head(fields)
         IN  1 + (IF f.data_type.kind = "Struct"
                  THEN FieldCount(f.data_type.fields) ELSE 0)
               + FieldCount(Tail(fields))

\* the k-th field in declaration order is given the name with the 0 byte
RECURSIVE Poison(_, _)
Poison(fields, k) ==
    IF fields = <<>> \/ k <= 0 THEN fields
    ELSE LET f == Head(fields)
             inner == IF f.data_type.kind = "Struct"
                      THEN FieldCount(f.data_type.fields) ELSE 0
         IN  IF k = 1 THEN <<[f EXCEPT !.name = NulName]>> \o Tail(fields)
             ELSE IF k <= 1 + inner
             THEN <<[f EXCEPT !.data_type.fields = Poison(@, k - 1)]>>
                      \o Tail(fields)
             ELSE <<f>> \o Poison(Tail(fields), k - 1 - inner)

\* the schemas of these fields: without a failing name (k = 0), and with
\* the failing name at each of the fields
Schemas(fs) == {StructType(Poison(fs, k)) : k \in 0 .. FieldCount(fs)}

\* CString::new: an error if the bytes hold a 0 byte
CString_new(bytes) ==
    IF bytes = NulName THEN Err("NulError", bytes, "") ELSE Ok(bytes)

\* unwrap() of the error panics inside an extern "C" function: the process
\* is aborted, or the panic unwinds into the engine's frames
PanicOutcomes == {"aborted", "unwound"}

\* the engine's visitor: make_field_list hands out a new, empty list
make_field_list(v, reserve) ==
    [v EXCEPT !.made = @ + 1,
              !.lists = Append(@, <<>>),
              !.trace = Append(@, [fn |-> "make_field_list",
                                   reserve |-> reserve, ret |-> v.made + 1])]

\* the engine's visitor: a visit_* method appends an entry to the siblings
visit_method(v, fn, siblings, name, children) ==
    [v EXCEPT !.lists[siblings] =
                  Append(@, [fn |-> fn, name |-> name, children |-> children]),
              !.trace = Append(@, [fn |-> fn, siblings |-> siblings,
                                   name |-> name, children |-> children])]

\* a match that sends a long to visit_integer
visit_field_match_long_as_integer(data_type) ==
    CASE data_type = Primitive("Integer") -> "visit_integer"
      [] data_type = Primitive("Long") -> "visit_integer"
      [] data_type = Primitive("String") -> "visit_string"
      [] data_type.kind = "Struct" -> "visit_struct"
      [] OTHER -> "unsupported"

\* the match of visit_field on the data type of the field
visit_field_match(data_type) ==
    CASE data_type = Primitive("Integer") -> "visit_integer"
      [] data_type = Primitive("Long") -> "visit_long"
      [] data_type = Primitive("String") -> "visit_string"
      [] data_type.kind = "Struct" -> "visit_struct"
      [] OTHER -> "unsupported"

\* visit_struct_fields up to its loop: the list of the children is made,
\* and the fields of s wait to be visited
visit_struct_fields(v, s, siblings, name) ==
    LET made == make_field_list(v, Len(s.fields))
    IN  [made EXCEPT !.stack = Append(@, [fields |-> s.fields,
                                          children |-> made.made,
                                          siblings |-> siblings,
                                          name |-> name])]

\* visit_schema(snapshot, visitor): the list of the top-level fields
visit_schema(schema) ==
    /\ visit.pc = "idle"
    /\ visit' = visit_struct_fields(
                    [pc |-> "visiting", schema |-> schema, stack |-> <<>>,
                     made |-> 0, lists |-> <<>>, trace |-> <<>>,
                     freed |-> {}, root |-> 0],
                    schema, 0, "")
    /\ UNCHANGED << tableVars, skipVars, and_call, scan_builder, walker >>

\* visit_field on the next field of the struct being visited
visit_field ==
    /\ visit.pc = "visiting"
    /\ LET depth == Len(visit.stack)
           frame == visit.stack[depth]
       IN  /\ frame.fields # <<>>
           /\ LET field == Head(frame.fields)
                  name == CString_new(field.name)
                  fn == visit_field_match(field.data_type)
                  next == [visit EXCEPT
                              !.stack[depth].fields = Tail(@)]
              IN  IF ~name.ok
                  THEN \E outcome \in PanicOutcomes :
                          visit' = [visit EXCEPT !.pc = outcome]
                  ELSE visit' =
                           CASE fn = "unsupported" -> next
                             [] fn = "visit_struct" ->
                                  visit_struct_fields(next, field.data_type,
                                      frame.children, name.val)
                             [] OTHER ->
                                  visit_method(next, fn, frame.children,
                                               name.val, 0)
    /\ UNCHANGED << tableVars, skipVars, and_call, scan_builder, walker >>

\* the loop of visit_struct_fields over a nested struct has ended: the
\* children are returned to visit_field, which calls visit_struct
visit_struct ==
    /\ visit.pc = "visiting"
    /\ LET depth == Len(visit.stack)
           frame == visit.stack[depth]
       IN  /\ depth > 1
           /\ frame.fields = <<>>
           /\ visit' = visit_method(
                           [visit EXCEPT !.stack = SubSeq(@, 1, depth - 1)],
                           "visit_struct", frame.siblings, frame.name,
                           frame.children)
    /\ UNCHANGED << tableVars, skipVars, and_call, scan_builder, walker >>

\* the loop over the top-level fields has ended: the list is returned
visit_schema_returns ==
    /\ visit.pc = "visiting"
    /\ Len(visit.stack) = 1
    /\ visit.stack[1].fields = <<>>
    /\ visit' = [visit EXCEPT !.pc = "returned", !.stack = <<>>,
                              !.root = visit.stack[1].children]
    /\ UNCHANGED << tableVars, skipVars, and_call, scan_builder, walker >>

SchemaNext ==
    \/ /\ visit.pc = "idle"
       /\ \E fs \in TopFields :
             \E schema \in Schemas(fs) : visit_schema(schema)
    \/ visit_field
    \/ visit_struct
    \/ visit_schema_returns

SchemaSpec == Init /\ [][SchemaNext]_vars

\* the callback of each supported primitive type
Callback == [Integer |-> "visit_integer", Long |-> "visit_long",
             String |-> "visit_string"]

\* the callbacks due for a list of fields whose list is siblings, when the
\* engine numbers its lists in the order of their creation and has made
\* `made` of them: the trace, and the number of lists made after it
RECURSIVE Expected(_, _, _)
Expected(fields, siblings, made) ==
    IF fields = <<>> THEN [trace |-> <<>>, made |-> made]
    ELSE LET f == Head(fields)
             t == f.data_type
             first ==
                 CASE t.kind = "Struct" ->
                        LET inner == Expected(t.fields, made + 1, made + 1)
                        IN  [trace |->
                                <<[fn |-> "make_field_list",
                                   reserve |-> Len(t.fields),
                                   ret |-> made + 1]>>
                                \o inner.trace
                                \o <<[fn |-> "visit_struct",
                                      siblings |-> siblings,
                                      name |-> f.name,
                                      children |-> made + 1]>>,
                             made |-> inner.made]
                   [] t.kind = "Primitive" /\ t.type \in DOMAIN Callback ->
                        [trace |-> <<[fn |-> Callback[t.type],
                                      siblings |-> siblings,
                                      name |-> f.name, children |-> 0]>>,
                         made |-> made]
                   [] OTHER -> [trace |-> <<>>, made |-> made]
             rest == Expected(Tail(fields), siblings, first.made)
         IN  [trace |-> first.trace \o rest.trace, made |-> rest.made]

\* the visit_struct calls that were given the list as children
StructCalls(list) ==
    {k \in 1 .. Len(visit.trace) :
        /\ visit.trace[k].fn = "visit_struct"
        /\ visit.trace[k].children = list}

ExampleSchema ==
    StructType(<<StructField("a", Primitive("Integer")),
                 StructField("b", StructType(
                     <<StructField("c", Primitive("String"))>>))>>)

\* C19: a visit_schema that returns has issued, struct by struct and in the
\* order of declaration, one visit_integer / visit_long / visit_string per
\* field of these types against the list of the enclosing struct, and for a
\* struct field make_field_list(number of its fields), then the callbacks of
\* its fields against that list, then one visit_struct(siblings, name, that
\* list); nothing for a field of another type.  Each list made is the
\* returned root, or the children of exactly one visit_struct.  For
\* {a: Integer, b: {c: String}} the root has two entries, the second a struct
\* whose list has one entry.
C19_Callbacks ==
    visit.pc = "returned" =>
        /\ visit.trace
              = <<[fn |-> "make_field_list",
                   reserve |-> Len(visit.schema.fields), ret |-> 1]>>
                \o Expected(visit.schema.fields, 1, 1).trace
        /\ visit.root = 1
        /\ \A list \in 1 .. visit.made :
              Cardinality(StructCalls(list))
                  = (IF list = visit.root THEN 0 ELSE 1)
        /\ visit.schema = ExampleSchema =>
              LET top == visit.lists[visit.root]
              IN  /\ Len(top) = 2
                  /\ top[1] = [fn |-> "visit_integer", name |-> "a",
                               children |-> 0]
                  /\ top[2].fn = "visit_struct"
                  /\ top[2].name = "b"
                  /\ Len(visit.lists[top[2].children]) = 1

\* {a: Integer, b: {c: String}} was visited to the end: two lists were made
C19_Witness ==
    /\ visit.pc = "returned"
    /\ visit.schema = ExampleSchema
    /\ visit.made = 2
    /\ Len(visit.lists[1]) = 2
    /\ visit.lists[2]
          = <<[fn |-> "visit_string", name |-> "c", children |-> 0]>>

\* C20: when the traversal fails on a field name that has no C string, every
\* list that make_field_list handed out during the traversal, none of which
\* is returned, has been given to free_field_list.
C20_FreedOnFailure ==
    visit.pc \in PanicOutcomes =>
        \A list \in 1 .. visit.made : list \in visit.freed

=============================================================================
